---- MODULE Spec2Model ----
(***************************************************************************)
(* Model of src/fortune/main.js: a planar Voronoi diagram builder based on *)
(* Fortune's sweepline algorithm (the sweep runs bottom-up: events are     *)
(* consumed by increasing y).                                              *)
(*                                                                         *)
(* Numbers.  A JavaScript number is an IEEE-754 double, and every          *)
(* operation of the code on numbers (+ - * / Math.sqrt < > ==) is computed *)
(* as the double operation computes it, rounding to the nearest double     *)
(* with ties to even.  A number is a record [kind, sign, man, exp]: kind   *)
(* is "num", "inf" or "nan"; a finite number is sign * man * 2^exp, man a  *)
(* natural number of at most 53 bits that is odd, or zero (then exp is 0   *)
(* and sign tells +0 from -0).  Naturals of any size are sequences of      *)
(* digits in base 2^14.  The exponent has the range of a double: a        *)
(* result of 2^1024 or more is an infinity, no bit of a number lies below  *)
(* 2^-1074 (the subnormal numbers have fewer than 53 bits), and a result   *)
(* that rounds to nothing there is a zero with the sign of the result.     *)
(*                                                                         *)
(* Objects are modelled by identity where the code compares by identity:   *)
(* arcs are indices into the arena `arcs`, active sites are indices into   *)
(* `activeSites`, and a site is a record [x, y, id] whose id stands for    *)
(* the identity of the object: two sites with equal coordinates and        *)
(* different ids are different objects.  A vertex event is a record        *)
(* [arcs, eventPoint, vertexPoint, id] whose id, the number of the object  *)
(* in the order of creation, stands for its identity in the same way.      *)
(* null is 0 for an arc reference and the empty sequence for a vertex.     *)
(***************************************************************************)
EXTENDS Integers, Sequences, FiniteSets, TLC

\* ------------------------------------------------------------------------
\* Bounds of the model
\* ------------------------------------------------------------------------
\* Input sites are drawn from the integer grid 0..MaxCoord x 0..MaxCoord.
MaxCoord == 2
\* An input drawn from the whole grid holds between 2 and MaxSites distinct
\* sites (larger inputs are drawn from a block of the grid, see Inputs).
MaxSites == 3
\* completeUnboundEdges may be run this many times once the queue is empty.
MaxFinal == 2

\* ------------------------------------------------------------------------
\* Natural numbers of any size: sequences of digits in base 2^14, lowest
\* digit first, no leading zero digit (zero is the empty sequence).
\* ------------------------------------------------------------------------
Base == 16384

DigitBits == 14

Pow2(n) == 2 ^ n

\* The number of bits of a digit.
IntBits(d) == Cardinality({k \in 1..DigitBits : d >= Pow2(k - 1)})

RECURSIVE BTrim(_)
BTrim(a) == IF Len(a) > 0 /\ a[Len(a)] = 0 THEN BTrim(SubSeq(a, 1, Len(a) - 1)) ELSE a

BOfInt(i) == BTrim(<<i % Base, (i \div Base) % Base, i \div (Base * Base)>>)

BDigit(a, i) == IF i >= 1 /\ i <= Len(a) THEN a[i] ELSE 0

\* Bit k of a, bit 0 the lowest.
BBit(a, k) == (BDigit(a, k \div DigitBits + 1) \div Pow2(k % DigitBits)) % 2

BBits(a) == IF Len(a) = 0 THEN 0 ELSE DigitBits * (Len(a) - 1) + IntBits(a[Len(a)])

\* The number of trailing zero bits of a > 0, from digit i up.
RECURSIVE BTrailingZerosFrom(_, _)
BTrailingZerosFrom(a, i) ==
    IF a[i] = 0 THEN DigitBits + BTrailingZerosFrom(a, i + 1) ELSE Cardinality({k \in 1..DigitBits : a[i] % Pow2(k) = 0})

\* Sign of a - b.
RECURSIVE BCmpFrom(_, _, _)
BCmpFrom(a, b, i) ==
    IF i = 0 THEN 0
    ELSE IF a[i] # b[i] THEN (IF a[i] < b[i] THEN -1 ELSE 1)
    ELSE BCmpFrom(a, b, i - 1)

BCmp(a, b) ==
    IF Len(a) # Len(b) THEN (IF Len(a) < Len(b) THEN -1 ELSE 1)
    ELSE BCmpFrom(a, b, Len(a))

\* The digits i.. of a + b + carry.
RECURSIVE BAddFrom(_, _, _, _)
BAddFrom(a, b, i, carry) ==
    IF i > Len(a) /\ i > Len(b)
    THEN (IF carry = 0 THEN <<>> ELSE <<carry>>)
    ELSE <<(BDigit(a, i) + BDigit(b, i) + carry) % Base>>
         \o BAddFrom(a, b, i + 1, (BDigit(a, i) + BDigit(b, i) + carry) \div Base)

BAdd(a, b) == BAddFrom(a, b, 1, 0)

\* The digits i.. of a - b - borrow, for a >= b.
RECURSIVE BSubFrom(_, _, _, _)
BSubFrom(a, b, i, borrow) ==
    IF i > Len(a) THEN <<>>
    ELSE <<(a[i] - BDigit(b, i) - borrow + Base) % Base>>
         \o BSubFrom(a, b, i + 1, IF a[i] - BDigit(b, i) - borrow < 0 THEN 1 ELSE 0)

BSub(a, b) == BTrim(BSubFrom(a, b, 1, 0))

\* The digits i.. of a * k + carry, for a digit k.
RECURSIVE BScaleFrom(_, _, _, _)
BScaleFrom(a, k, i, carry) ==
    IF i > Len(a) THEN (IF carry = 0 THEN <<>> ELSE <<carry>>)
    ELSE <<(a[i] * k + carry) % Base>> \o BScaleFrom(a, k, i + 1, (a[i] * k + carry) \div Base)

BScale(a, k) == IF k = 0 THEN <<>> ELSE BScaleFrom(a, k, 1, 0)

\* a * Base^n.
BShiftDigits(a, n) == IF Len(a) = 0 THEN a ELSE [i \in 1..n |-> 0] \o a

\* a * b, from digit i of b up.
RECURSIVE BMulFrom(_, _, _)
BMulFrom(a, b, i) ==
    IF i > Len(b) THEN <<>>
    ELSE BAdd(BScale(a, b[i]), BShiftDigits(BMulFrom(a, b, i + 1), 1))

BMul(a, b) == IF Len(a) < Len(b) THEN BMulFrom(b, a, 1) ELSE BMulFrom(a, b, 1)

\* a * 2^n.
BShl(a, n) == BShiftDigits(BScale(a, Pow2(n % DigitBits)), n \div DigitBits)

\* floor(a / 2^n).
BShr(a, n) ==
    BTrim([i \in 1..(Len(a) - n \div DigitBits) |->
        a[i + n \div DigitBits] \div Pow2(n % DigitBits)
        + (BDigit(a, i + n \div DigitBits + 1) % Pow2(n % DigitBits)) * Pow2(DigitBits - (n % DigitBits))])

\* The digit floor(r / v), for r < v * Base and v with its highest digit at
\* least Base / 2: the quotient of the leading digits is at most 2 above it.
BQuotientDigit(r, v, estimate) ==
    IF BCmp(BScale(v, estimate), r) <= 0 THEN estimate
    ELSE IF BCmp(BScale(v, estimate - 1), r) <= 0 THEN estimate - 1
    ELSE estimate - 2

BEstimate(r, v) ==
    BQuotientDigit(r, v,
        IF (BDigit(r, Len(v) + 1) * Base + BDigit(r, Len(v))) \div v[Len(v)] > Base - 1 THEN Base - 1
        ELSE (BDigit(r, Len(v) + 1) * Base + BDigit(r, Len(v))) \div v[Len(v)])

\* Long division by v (highest digit at least Base / 2) of the digits i..1
\* of u after the remainder rem of the digits above them.
RECURSIVE BLongDiv(_, _, _, _, _)
BLongDivDigit(u, v, i, r, quotient, q) ==
    IF q >= 0 THEN BLongDiv(u, v, i - 1, BSub(r, BScale(v, q)), <<q>> \o quotient)
    ELSE <<>>

BLongDiv(u, v, i, rem, quotient) ==
    IF i = 0 THEN <<BTrim(quotient), rem>>
    ELSE BLongDivDigit(u, v, i, BTrim(<<u[i]>> \o rem), quotient,
                       BEstimate(BTrim(<<u[i]>> \o rem), v))

BDivNormal(u, v) ==
    IF Len(u) < Len(v) THEN <<<<>>, u>>
    ELSE BLongDiv(u, v, Len(u) - Len(v) + 1, SubSeq(u, Len(u) - Len(v) + 2, Len(u)), <<>>)

\* <<floor(u / v), u % v times a power of two>> for v > 0.
BDivMod(u, v) ==
    BDivNormal(BShl(u, DigitBits - IntBits(v[Len(v)])), BShl(v, DigitBits - IntBits(v[Len(v)])))

\* floor(sqrt(i)) for 0 < i < 2^28: Newton's iteration from above.
RECURSIVE IntSqrtFrom(_, _)
IntSqrtFrom(i, x) ==
    IF (x + i \div x) \div 2 >= x THEN x ELSE IntSqrtFrom(i, (x + i \div x) \div 2)

\* floor(sqrt(a)): Newton's iteration from a value that is not below it.
RECURSIVE BSqrtFrom(_, _)
BSqrtFrom(a, x) ==
    LET y == BShr(BAdd(x, BDivMod(a, x)[1]), 1)
    IN  IF BCmp(y, x) >= 0 THEN x ELSE BSqrtFrom(a, y)

BSqrt(a) ==
    IF Len(a) = 0 THEN a
    ELSE IF Len(a) % 2 = 0
    THEN BSqrtFrom(a, [i \in 1..((Len(a) - 2) \div 2) |-> 0]
                      \o BOfInt(IntSqrtFrom(a[Len(a)] * Base + a[Len(a) - 1], Base) + 1))
    ELSE BSqrtFrom(a, [i \in 1..((Len(a) - 1) \div 2) |-> 0]
                      \o BOfInt(IntSqrtFrom(a[Len(a)], Base) + 1))

\* ------------------------------------------------------------------------
\* IEEE-754 double precision numbers (JavaScript numbers).  A finite number
\* is sign * man * 2^exp with man odd, or man zero and exp zero; man has at
\* most 53 bits, exp is at least -1074 and the number is less than 2^1024
\* in magnitude.
\* ------------------------------------------------------------------------
NaN == [kind |-> "nan", sign |-> 1, man |-> <<>>, exp |-> 0]

Infinity == [kind |-> "inf", sign |-> 1, man |-> <<>>, exp |-> 0]

Zero(sign) == [kind |-> "num", sign |-> sign, man |-> <<>>, exp |-> 0]

IsNaN(a) == a.kind = "nan"

IsFinite(a) == a.kind = "num"

IsZero(a) == a.kind = "num" /\ Len(a.man) = 0

\* The number of low bits that n has beyond 53.
Drop(n) == IF BBits(n) > 53 THEN BBits(n) - 53 ELSE 0

\* Whether n + f rounds up when its lowest drop bits are left out, ties to
\* even: the highest bit left out is set, and a lower bit, f or the lowest bit
\* kept is not zero.
RoundsUp(n, sticky, drop) ==
    BBit(n, drop - 1) = 1 /\ (sticky \/ BBit(n, drop) = 1 \/ BTrailingZerosFrom(n, 1) < drop - 1)

Rounded(n, sticky, drop) ==
    IF drop = 0 THEN n
    ELSE IF RoundsUp(n, sticky, drop) THEN BAdd(BShr(n, drop), <<1>>)
    ELSE BShr(n, drop)

RECURSIVE Exact(_, _, _)
\* The double nearest to sign * n * 2^e for a natural n > 0 of at most 53
\* bits that has zeros trailing zero bits: an infinity from 2^1024 on, and
\* rounded at the bit 2^-1074 when n has bits below it.
Stripped(sign, n, e, zeros) ==
    IF BBits(n) + e > 1024 THEN [kind |-> "inf", sign |-> sign, man |-> <<>>, exp |-> 0]
    ELSE IF e + zeros < -1074 THEN Exact(sign, Rounded(n, FALSE, -1074 - e), -1074)
    ELSE [kind |-> "num", sign |-> sign, man |-> BShr(n, zeros), exp |-> e + zeros]

\* The double nearest to sign * n * 2^e for a natural n that has at most 53
\* bits.
Exact(sign, n, e) ==
    IF Len(n) = 0 THEN Zero(sign) ELSE Stripped(sign, n, e, BTrailingZerosFrom(n, 1))

RoundAt(sign, n, e, sticky, drop) == Exact(sign, Rounded(n, sticky, drop), e + drop)

\* The double nearest to sign * (n + f) * 2^e, where 0 < f < 1 if sticky and
\* f = 0 otherwise: n is rounded once, to 53 bits or at the bit 2^-1074,
\* whichever leaves out more.
Round(sign, n, e, sticky) ==
    RoundAt(sign, n, e, sticky, IF Drop(n) < -1074 - e THEN -1074 - e ELSE Drop(n))

\* The number an integer literal or an integer coordinate stands for.
FInt(i) == Exact(IF i < 0 THEN -1 ELSE 1, BOfInt(IF i < 0 THEN -i ELSE i), 0)

\* -a.
FNeg(a) == IF IsNaN(a) THEN a ELSE [a EXCEPT !.sign = -a.sign]

\* The sum of sign(a) * na * 2^e and sign(b) * nb * 2^e, where c compares na
\* with nb; a sum of opposite numbers is +0.
AddSigned(a, b, e, na, nb, c) ==
    Round(IF a.sign = b.sign \/ c > 0 THEN a.sign ELSE IF c < 0 THEN b.sign ELSE 1,
          IF a.sign = b.sign THEN BAdd(na, nb) ELSE IF c < 0 THEN BSub(nb, na) ELSE BSub(na, nb),
          e, FALSE)

AddAligned(a, b, e, na, nb) == AddSigned(a, b, e, na, nb, BCmp(na, nb))

\* a + b for finite numbers, with their mantissas at the lower exponent e.
AddFinite(a, b, e) == AddAligned(a, b, e, BShl(a.man, a.exp - e), BShl(b.man, b.exp - e))

FAdd(a, b) ==
    IF IsNaN(a) \/ IsNaN(b) THEN NaN
    ELSE IF ~IsFinite(a) /\ ~IsFinite(b) THEN (IF a.sign = b.sign THEN a ELSE NaN)
    ELSE IF ~IsFinite(a) THEN a
    ELSE IF ~IsFinite(b) THEN b
    ELSE AddFinite(a, b, IF a.exp < b.exp THEN a.exp ELSE b.exp)

FSub(a, b) == FAdd(a, FNeg(b))

FMul(a, b) ==
    IF IsNaN(a) \/ IsNaN(b) THEN NaN
    ELSE IF ~IsFinite(a) \/ ~IsFinite(b)
    THEN (IF IsZero(a) \/ IsZero(b) THEN NaN
          ELSE [kind |-> "inf", sign |-> a.sign * b.sign, man |-> <<>>, exp |-> 0])
    ELSE Round(a.sign * b.sign, BMul(a.man, b.man), a.exp + b.exp, FALSE)

\* a / b for finite numbers that are not zero, from the quotient d of the
\* mantissa of a moved up by shift bits and the mantissa of b.
DivRounded(a, b, shift, d) == Round(a.sign * b.sign, d[1], a.exp - b.exp - shift, Len(d[2]) > 0)

\* The quotient of the mantissas has 57 or 58 bits.
DivFinite(a, b, shift) == DivRounded(a, b, shift, BDivMod(BShl(a.man, shift), b.man))

FDiv(a, b) ==
    IF IsNaN(a) \/ IsNaN(b) THEN NaN
    ELSE IF ~IsFinite(a) /\ ~IsFinite(b) THEN NaN
    ELSE IF ~IsFinite(a) THEN [kind |-> "inf", sign |-> a.sign * b.sign, man |-> <<>>, exp |-> 0]
    ELSE IF ~IsFinite(b) THEN Zero(a.sign * b.sign)
    ELSE IF IsZero(b)
    THEN (IF IsZero(a) THEN NaN
          ELSE [kind |-> "inf", sign |-> a.sign * b.sign, man |-> <<>>, exp |-> 0])
    ELSE IF IsZero(a) THEN Zero(a.sign * b.sign)
    ELSE DivFinite(a, b, 57 + BBits(b.man) - BBits(a.man))

\* Math.sqrt of a positive finite number, from the square root r of its
\* mantissa n moved up to 111 or 112 bits at an even exponent e.
SqrtFinite(a, shift) ==
    LET n == BShl(a.man, shift)
        r == BSqrt(n)
    IN  Round(1, r, (a.exp - shift) \div 2, BCmp(BMul(r, r), n) # 0)

FSqrt(a) ==
    IF IsNaN(a) THEN NaN
    ELSE IF IsZero(a) THEN a
    ELSE IF a.sign = -1 THEN NaN
    ELSE IF ~IsFinite(a) THEN a
    ELSE SqrtFinite(a, 111 - BBits(a.man) + ((a.exp - 111 + BBits(a.man)) % 2))

\* The sign of a - b for finite numbers with their mantissas at one exponent.
CmpAligned(a, b, na, nb) ==
    IF a.sign = b.sign THEN BCmp(na, nb) * a.sign
    ELSE IF Len(na) = 0 /\ Len(nb) = 0 THEN 0
    ELSE a.sign

CmpAt(a, b, e) == CmpAligned(a, b, BShl(a.man, a.exp - e), BShl(b.man, b.exp - e))

\* a < b.
FLess(a, b) ==
    IF IsNaN(a) \/ IsNaN(b) THEN FALSE
    ELSE IF ~IsFinite(a) THEN a.sign = -1 /\ (IsFinite(b) \/ b.sign = 1)
    ELSE IF ~IsFinite(b) THEN b.sign = 1
    ELSE CmpAt(a, b, IF a.exp < b.exp THEN a.exp ELSE b.exp) < 0

\* a == b.
FEq(a, b) ==
    IF IsNaN(a) \/ IsNaN(b) THEN FALSE
    ELSE IF IsZero(a) /\ IsZero(b) THEN TRUE
    ELSE a = b

\* a < 0 and a > 0.
Negative(a) == ~IsNaN(a) /\ a.sign = -1 /\ ~IsZero(a)

\* a / 2: a power of two moves the exponent, and the lowest bit of a number
\* at the exponent -1074 is rounded away.
FHalf(a) == IF IsFinite(a) /\ ~IsZero(a) THEN Exact(a.sign, a.man, a.exp - 1) ELSE a

\* Number.EPSILON, 2^-52.
Epsilon == [kind |-> "num", sign |-> 1, man |-> <<1>>, exp |-> -52]

\* ------------------------------------------------------------------------
\* Array.prototype.sort
\* ------------------------------------------------------------------------
\* The pairs of elements of an array, the domain of its comparator.
Pairs(s) == {s[i] : i \in 1..Len(s)} \X {s[i] : i \in 1..Len(s)}

\* Array.prototype.sort with a comparator, as the engine that runs the
\* script does it (V8, array-sort.tq): a stable merge sort of natural runs.
\* lt holds the pairs <<a, b>> for which the comparator returns a number
\* below zero; any other answer, NaN included, counts as "not before".  The
\* steps are spelled out because they fix the result for a comparator that
\* is not consistent: an array of fewer than 64 elements is one run that
\* binary insertion completes, a longer one is cut into runs of 32 to 64
\* elements that are merged, galloping after 7 wins in a row
\* (kMinGallopWins).  Indices are the engine's, from 0: element i of an
\* array w is w[i + 1].
RECURSIVE ComputeMinRunLength(_, _)
ComputeMinRunLength(n, r) ==
    IF n >= 64 THEN ComputeMinRunLength(n \div 2, IF n % 2 = 1 THEN 1 ELSE r)
    ELSE n + r

\* The length of the run that starts before idx: strictly descending if
\* desc, not descending otherwise.
RECURSIVE RunLength(_, _, _, _, _, _)
RunLength(w, desc, idx, high, length, lt) ==
    IF idx < high /\ (<<w[idx + 1], w[idx]>> \in lt) = desc
    THEN RunLength(w, desc, idx + 1, high, length + 1, lt)
    ELSE length

\* The run of w[low .. high) that starts at low, reversed if it descends.
CountAndMakeRun(w, low, high, lt) ==
    IF low + 1 = high THEN [w |-> w, length |-> 1]
    ELSE LET desc == <<w[low + 2], w[low + 1]>> \in lt
             length == RunLength(w, desc, low + 2, high, 2, lt)
         IN  [w |-> IF desc
                    THEN SubSeq(w, 1, low) \o [i \in 1..length |-> w[low + length + 1 - i]]
                             \o SubSeq(w, low + length + 1, Len(w))
                    ELSE w,
              length |-> length]

\* The place of pivot in the sorted w[left .. right): after its equals.
RECURSIVE BinaryPosition(_, _, _, _, _)
BinaryPosition(w, pivot, left, right, lt) ==
    IF left >= right THEN left
    ELSE IF <<pivot, w[left + ((right - left) \div 2) + 1]>> \in lt
         THEN BinaryPosition(w, pivot, left, left + ((right - left) \div 2), lt)
         ELSE BinaryPosition(w, pivot, left + ((right - left) \div 2) + 1, right, lt)

\* w[low .. high) sorted, its part below start being sorted already.
RECURSIVE BinaryInsertionSort(_, _, _, _, _)
BinaryInsertionSort(w, low, start, high, lt) ==
    IF start >= high THEN w
    ELSE LET left == BinaryPosition(w, w[start + 1], low, start, lt)
         IN  BinaryInsertionSort(
                 SubSeq(w, 1, left) \o <<w[start + 1]>> \o SubSeq(w, left + 1, start)
                     \o SubSeq(w, start + 2, Len(w)),
                 low, start + 1, high, lt)

\* The offsets <<lastOfs, offset>> of a gallop from element from of a: up
\* while key belongs after the element, down while it does not.  For
\* GallopLeft (left) key belongs after an element below it, for GallopRight
\* after an element it is not below.
RECURSIVE GallopOffsets(_, _, _, _, _, _, _, _, _)
GallopOffsets(a, key, from, left, up, maxOfs, lastOfs, offset, lt) ==
    LET at == IF up THEN from + offset ELSE from - offset
    IN  IF offset < maxOfs
               /\ (IF left THEN <<a[at + 1], key>> \in lt ELSE <<key, a[at + 1]>> \notin lt) = up
        THEN GallopOffsets(a, key, from, left, up, maxOfs, offset, 2 * offset + 1, lt)
        ELSE <<lastOfs, IF offset > maxOfs THEN maxOfs ELSE offset>>

\* The binary search that ends a gallop, between lastOfs and offset from base.
RECURSIVE GallopSearch(_, _, _, _, _, _, _)
GallopSearch(a, key, base, left, lastOfs, offset, lt) ==
    LET m == lastOfs + ((offset - lastOfs) \div 2)
    IN  IF lastOfs >= offset THEN offset
        ELSE IF (IF left THEN <<a[base + m + 1], key>> \in lt
                 ELSE <<key, a[base + m + 1]>> \notin lt)
             THEN GallopSearch(a, key, base, left, m + 1, offset, lt)
             ELSE GallopSearch(a, key, base, left, lastOfs, m, lt)

\* GallopLeft (left) and GallopRight: the offset from base where key belongs
\* in the sorted a[base .. base + length), before its equals for GallopLeft
\* and after them for GallopRight, searched from the offset hint.
Gallop(a, key, base, length, hint, left, lt) ==
    LET up == IF left THEN <<a[base + hint + 1], key>> \in lt
              ELSE <<key, a[base + hint + 1]>> \notin lt
        ofs == GallopOffsets(a, key, base + hint, left, up,
                             IF up THEN length - hint ELSE hint + 1, 0, 1, lt)
    IN  IF up THEN GallopSearch(a, key, base, left, ofs[1] + hint + 1, ofs[2] + hint, lt)
        ELSE GallopSearch(a, key, base, left, hint - ofs[2] + 1, hint - ofs[1], lt)

\* MergeLow from the position m.at on: run A is copied to t and the runs are
\* merged upwards into w.  dest and cursorB are positions in w, cursorTemp in
\* t; Succeed and CopyB are the exits; the result is the array and the
\* minGallop the sort keeps.
RECURSIVE MergeLow(_, _)
MergeLow(m, lt) ==
    LET Copy(src, sp, dp, k) ==
            SubSeq(m.w, 1, dp) \o SubSeq(src, sp + 1, sp + k) \o SubSeq(m.w, dp + k + 1, Len(m.w))
        TakeB == [m.w EXCEPT ![m.dest + 1] = m.w[m.cursorB + 1]]
        TakeA == [m.w EXCEPT ![m.dest + 1] = m.t[m.cursorTemp + 1]]
    IN  CASE m.at = "Succeed" ->
                 [w |-> IF m.lengthA > 0 THEN Copy(m.t, m.cursorTemp, m.dest, m.lengthA)
                        ELSE m.w,
                  minGallop |-> m.minGallop]
          [] m.at = "CopyB" ->
                 [w |-> [Copy(m.w, m.cursorB, m.dest, m.lengthB)
                            EXCEPT ![m.dest + m.lengthB + 1] = m.t[m.cursorTemp + 1]],
                  minGallop |-> m.minGallop]
          [] m.at = "start" ->
                 MergeLow([m EXCEPT !.w = TakeB, !.dest = @ + 1, !.cursorB = @ + 1,
                                    !.lengthB = @ - 1,
                                    !.at = IF m.lengthB = 1 THEN "Succeed"
                                           ELSE IF m.lengthA = 1 THEN "CopyB" ELSE "pairs"], lt)
          [] m.at = "pairs" ->
                 IF <<m.w[m.cursorB + 1], m.t[m.cursorTemp + 1]>> \in lt
                 THEN MergeLow([m EXCEPT !.w = TakeB, !.dest = @ + 1, !.cursorB = @ + 1,
                                         !.nofWinsB = @ + 1, !.lengthB = @ - 1, !.nofWinsA = 0,
                                         !.at = IF m.lengthB = 1 THEN "Succeed"
                                                ELSE IF m.nofWinsB + 1 >= m.minGallop
                                                     THEN "gallop" ELSE "pairs"], lt)
                 ELSE MergeLow([m EXCEPT !.w = TakeA, !.dest = @ + 1, !.cursorTemp = @ + 1,
                                         !.nofWinsA = @ + 1, !.lengthA = @ - 1, !.nofWinsB = 0,
                                         !.at = IF m.lengthA = 2 THEN "CopyB"
                                                ELSE IF m.nofWinsA + 1 >= m.minGallop
                                                     THEN "gallop" ELSE "pairs"], lt)
          [] m.at = "gallop" ->
                 MergeLow([m EXCEPT !.minGallop = @ + 1, !.firstIteration = TRUE,
                                    !.at = "galloping"], lt)
          [] m.at = "galloping" ->
                 IF m.nofWinsA >= 7 \/ m.nofWinsB >= 7 \/ m.firstIteration
                 THEN MergeLow([m EXCEPT !.firstIteration = FALSE,
                                         !.minGallop = IF @ > 2 THEN @ - 1 ELSE 1,
                                         !.nofWinsA = Gallop(m.t, m.w[m.cursorB + 1], m.cursorTemp,
                                                             m.lengthA, 0, FALSE, lt),
                                         !.at = "wonA"], lt)
                 ELSE MergeLow([m EXCEPT !.minGallop = @ + 1, !.nofWinsA = 0, !.nofWinsB = 0,
                                         !.at = "pairs"], lt)
          [] m.at = "wonA" ->
                 IF m.nofWinsA > 0
                 THEN MergeLow([m EXCEPT !.w = Copy(m.t, m.cursorTemp, m.dest, m.nofWinsA),
                                         !.dest = @ + m.nofWinsA,
                                         !.cursorTemp = @ + m.nofWinsA,
                                         !.lengthA = @ - m.nofWinsA,
                                         !.at = IF m.lengthA - m.nofWinsA = 1 THEN "CopyB"
                                                ELSE IF m.lengthA - m.nofWinsA = 0 THEN "Succeed"
                                                ELSE "takeB"], lt)
                 ELSE MergeLow([m EXCEPT !.at = "takeB"], lt)
          [] m.at = "takeB" ->
                 MergeLow([m EXCEPT !.w = TakeB, !.dest = @ + 1, !.cursorB = @ + 1,
                                    !.lengthB = @ - 1,
                                    !.at = IF m.lengthB = 1 THEN "Succeed" ELSE "gallopB"], lt)
          [] m.at = "gallopB" ->
                 MergeLow([m EXCEPT !.nofWinsB = Gallop(m.w, m.t[m.cursorTemp + 1], m.cursorB,
                                                        m.lengthB, 0, TRUE, lt),
                                    !.at = "wonB"], lt)
          [] m.at = "wonB" ->
                 IF m.nofWinsB > 0
                 THEN MergeLow([m EXCEPT !.w = Copy(m.w, m.cursorB, m.dest, m.nofWinsB),
                                         !.dest = @ + m.nofWinsB,
                                         !.cursorB = @ + m.nofWinsB,
                                         !.lengthB = @ - m.nofWinsB,
                                         !.at = IF m.lengthB - m.nofWinsB = 0 THEN "Succeed"
                                                ELSE "takeA"], lt)
                 ELSE MergeLow([m EXCEPT !.at = "takeA"], lt)
          [] m.at = "takeA" ->
                 MergeLow([m EXCEPT !.w = TakeA, !.dest = @ + 1, !.cursorTemp = @ + 1,
                                    !.lengthA = @ - 1,
                                    !.at = IF m.lengthA = 2 THEN "CopyB" ELSE "galloping"], lt)

\* MergeHigh from the position m.at on: run B is copied to t and the runs
\* are merged downwards into w.  dest and cursorA are positions in w,
\* cursorTemp in t; Succeed and CopyA are the exits.
RECURSIVE MergeHigh(_, _)
MergeHigh(m, lt) ==
    LET Copy(src, sp, dp, k) ==
            SubSeq(m.w, 1, dp) \o SubSeq(src, sp + 1, sp + k) \o SubSeq(m.w, dp + k + 1, Len(m.w))
        TakeA == [m.w EXCEPT ![m.dest + 1] = m.w[m.cursorA + 1]]
        TakeB == [m.w EXCEPT ![m.dest + 1] = m.t[m.cursorTemp + 1]]
    IN  CASE m.at = "Succeed" ->
                 [w |-> IF m.lengthB > 0
                        THEN Copy(m.t, 0, m.dest - (m.lengthB - 1), m.lengthB)
                        ELSE m.w,
                  minGallop |-> m.minGallop]
          [] m.at = "CopyA" ->
                 [w |-> [Copy(m.w, m.cursorA - m.lengthA + 1, m.dest - m.lengthA + 1, m.lengthA)
                            EXCEPT ![m.dest - m.lengthA + 1] = m.t[m.cursorTemp + 1]],
                  minGallop |-> m.minGallop]
          [] m.at = "start" ->
                 MergeHigh([m EXCEPT !.w = TakeA, !.dest = @ - 1, !.cursorA = @ - 1,
                                     !.lengthA = @ - 1,
                                     !.at = IF m.lengthA = 1 THEN "Succeed"
                                            ELSE IF m.lengthB = 1 THEN "CopyA" ELSE "pairs"], lt)
          [] m.at = "pairs" ->
                 IF <<m.t[m.cursorTemp + 1], m.w[m.cursorA + 1]>> \in lt
                 THEN MergeHigh([m EXCEPT !.w = TakeA, !.dest = @ - 1, !.cursorA = @ - 1,
                                          !.nofWinsA = @ + 1, !.lengthA = @ - 1, !.nofWinsB = 0,
                                          !.at = IF m.lengthA = 1 THEN "Succeed"
                                                 ELSE IF m.nofWinsA + 1 >= m.minGallop
                                                      THEN "gallop" ELSE "pairs"], lt)
                 ELSE MergeHigh([m EXCEPT !.w = TakeB, !.dest = @ - 1, !.cursorTemp = @ - 1,
                                          !.nofWinsB = @ + 1, !.lengthB = @ - 1, !.nofWinsA = 0,
                                          !.at = IF m.lengthB = 2 THEN "CopyA"
                                                 ELSE IF m.nofWinsB + 1 >= m.minGallop
                                                      THEN "gallop" ELSE "pairs"], lt)
          [] m.at = "gallop" ->
                 MergeHigh([m EXCEPT !.minGallop = @ + 1, !.firstIteration = TRUE,
                                     !.at = "galloping"], lt)
          [] m.at = "galloping" ->
                 IF m.nofWinsA >= 7 \/ m.nofWinsB >= 7 \/ m.firstIteration
                 THEN MergeHigh([m EXCEPT !.firstIteration = FALSE,
                                          !.minGallop = IF @ > 2 THEN @ - 1 ELSE 1,
                                          !.nofWinsA = m.lengthA
                                              - Gallop(m.w, m.t[m.cursorTemp + 1], m.baseA,
                                                       m.lengthA, m.lengthA - 1, FALSE, lt),
                                          !.at = "wonA"], lt)
                 ELSE MergeHigh([m EXCEPT !.minGallop = @ + 1, !.nofWinsA = 0, !.nofWinsB = 0,
                                          !.at = "pairs"], lt)
          [] m.at = "wonA" ->
                 IF m.nofWinsA > 0
                 THEN MergeHigh([m EXCEPT !.w = Copy(m.w, m.cursorA - m.nofWinsA + 1,
                                                     m.dest - m.nofWinsA + 1, m.nofWinsA),
                                          !.dest = @ - m.nofWinsA,
                                          !.cursorA = @ - m.nofWinsA,
                                          !.lengthA = @ - m.nofWinsA,
                                          !.at = IF m.lengthA - m.nofWinsA = 0 THEN "Succeed"
                                                 ELSE "takeB"], lt)
                 ELSE MergeHigh([m EXCEPT !.at = "takeB"], lt)
          [] m.at = "takeB" ->
                 MergeHigh([m EXCEPT !.w = TakeB, !.dest = @ - 1, !.cursorTemp = @ - 1,
                                     !.lengthB = @ - 1,
                                     !.at = IF m.lengthB = 2 THEN "CopyA" ELSE "gallopB"], lt)
          [] m.at = "gallopB" ->
                 MergeHigh([m EXCEPT !.nofWinsB = m.lengthB
                                         - Gallop(m.t, m.w[m.cursorA + 1], 0, m.lengthB,
                                                  m.lengthB - 1, TRUE, lt),
                                     !.at = "wonB"], lt)
          [] m.at = "wonB" ->
                 IF m.nofWinsB > 0
                 THEN MergeHigh([m EXCEPT !.w = Copy(m.t, m.cursorTemp - m.nofWinsB + 1,
                                                     m.dest - m.nofWinsB + 1, m.nofWinsB),
                                          !.dest = @ - m.nofWinsB,
                                          !.cursorTemp = @ - m.nofWinsB,
                                          !.lengthB = @ - m.nofWinsB,
                                          !.at = IF m.lengthB - m.nofWinsB = 1 THEN "CopyA"
                                                 ELSE IF m.lengthB - m.nofWinsB = 0 THEN "Succeed"
                                                 ELSE "takeA"], lt)
                 ELSE MergeHigh([m EXCEPT !.at = "takeA"], lt)
          [] m.at = "takeA" ->
                 MergeHigh([m EXCEPT !.w = TakeA, !.dest = @ - 1, !.cursorA = @ - 1,
                                     !.lengthA = @ - 1,
                                     !.at = IF m.lengthA = 1 THEN "Succeed" ELSE "galloping"], lt)

\* MergeAt: the runs i and i + 1 of the stack become one.  The elements of A
\* that are in place before B and those of B that are in place after A stay
\* out of the merge, and the shorter of the rest is the run that is copied.
MergeAt(st, i, lt) ==
    LET a == st.pendingRuns[i + 1]
        b == st.pendingRuns[i + 2]
        k == Gallop(st.w, st.w[b[1] + 1], a[1], a[2], 0, FALSE, lt)
        lengthB == Gallop(st.w, st.w[a[1] + a[2]], b[1], b[2], b[2] - 1, TRUE, lt)
        merged == IF a[2] - k = 0 \/ lengthB = 0 THEN st
                  ELSE IF a[2] - k <= lengthB
                  THEN MergeLow([w |-> st.w, t |-> SubSeq(st.w, a[1] + k + 1, a[1] + a[2]),
                                 dest |-> a[1] + k, cursorTemp |-> 0, cursorB |-> b[1],
                                 lengthA |-> a[2] - k, lengthB |-> lengthB,
                                 minGallop |-> st.minGallop, nofWinsA |-> 0, nofWinsB |-> 0,
                                 firstIteration |-> FALSE, at |-> "start"], lt)
                  ELSE MergeHigh([w |-> st.w, t |-> SubSeq(st.w, b[1] + 1, b[1] + lengthB),
                                  dest |-> b[1] + lengthB - 1, cursorTemp |-> lengthB - 1,
                                  cursorA |-> a[1] + a[2] - 1, baseA |-> a[1] + k,
                                  lengthA |-> a[2] - k, lengthB |-> lengthB,
                                  minGallop |-> st.minGallop, nofWinsA |-> 0, nofWinsB |-> 0,
                                  firstIteration |-> FALSE, at |-> "start"], lt)
    IN  [w |-> merged.w, minGallop |-> merged.minGallop,
         pendingRuns |-> SubSeq(st.pendingRuns, 1, i) \o << <<a[1], a[2] + b[2]>> >>
                             \o SubSeq(st.pendingRuns, i + 3, Len(st.pendingRuns))]

\* MergeCollapse, and MergeForceCollapse if force: runs of the stack are
\* merged until the lengths of the runs decrease fast enough (each longer
\* than the two above it together), or, if force, until one run is left.
RECURSIVE MergeCollapse(_, _, _)
MergeCollapse(st, force, lt) ==
    LET n == Len(st.pendingRuns) - 2
        Length(k) == st.pendingRuns[k + 1][2]
        RunInvariantEstablished(k) == k < 2 \/ Length(k - 2) > Length(k - 1) + Length(k)
        at == IF force THEN (IF n > 0 /\ Length(n - 1) < Length(n + 1) THEN n - 1 ELSE n)
              ELSE IF ~RunInvariantEstablished(n + 1) \/ ~RunInvariantEstablished(n)
              THEN (IF Length(n - 1) < Length(n + 1) THEN n - 1 ELSE n)
              ELSE IF Length(n) <= Length(n + 1) THEN n
              ELSE -1
    IN  IF n < 0 \/ at < 0 THEN st ELSE MergeCollapse(MergeAt(st, at, lt), force, lt)

\* The runs of w[low .. low + remaining) are found one after the other, a
\* run shorter than minRunLength is extended to it by binary insertion, and
\* each run is pushed on the stack, which is collapsed.
RECURSIVE ArrayTimSortImpl(_, _, _, _, _)
ArrayTimSortImpl(st, low, remaining, minRunLength, lt) ==
    LET run == CountAndMakeRun(st.w, low, low + remaining, lt)
        short == run.length < minRunLength
        length == IF ~short THEN run.length
                  ELSE IF minRunLength < remaining THEN minRunLength ELSE remaining
    IN  IF remaining = 0 THEN MergeCollapse(st, TRUE, lt)
        ELSE ArrayTimSortImpl(
                 MergeCollapse(
                     [st EXCEPT !.w = IF short
                                      THEN BinaryInsertionSort(run.w, low, low + run.length,
                                                               low + length, lt)
                                      ELSE run.w,
                                !.pendingRuns = Append(@, <<low, length>>)],
                     FALSE, lt),
                 low + length, remaining - length, minRunLength, lt)

JsSort(s, lt) ==
    IF Len(s) < 2 THEN s
    ELSE ArrayTimSortImpl([w |-> s, minGallop |-> 7, pendingRuns |-> <<>>],
                          0, Len(s), ComputeMinRunLength(Len(s), 0), lt).w


\* ------------------------------------------------------------------------
\* Geometry primitives
\* ------------------------------------------------------------------------
\* A site of coordinates (x, y), the object of identity id.
Site(x, y, id) == [x |-> FInt(x), y |-> FInt(y), id |-> id]

\* A vertex.
VPoint(x, y) == [x |-> x, y |-> y]

\* parabolaPointY after its two subtractions.
ParabolaFromOrigin(focus, directrix, xPos) ==
    FAdd(FDiv(FSub(FMul(directrix, directrix), FMul(xPos, xPos)), FMul(FInt(2), directrix)), focus.y)

ParabolaPointY(focus, directrix, xPos) ==
    ParabolaFromOrigin(focus, FSub(directrix, focus.y), FSub(xPos, focus.x))

\* The comparator of the sort in circle: a before b when "< 0".
CircleLt(a, b) ==
    IF FEq(a.y, b.y) THEN Negative(FSub(a.x, b.x)) ELSE Negative(FSub(a.y, b.y))

\* dx / dy, Infinity when dy == 0.
GradientOrInfinity(dx, dy) == IF FEq(dy, Zero(1)) THEN Infinity ELSE FDiv(dx, dy)

\* The inverse gradient of the bisector of a and b, Infinity for a.y = b.y.
InverseGradient(a, b) == GradientOrInfinity(FSub(a.x, b.x), FSub(b.y, a.y))

\* xVal, from the midpoints and inverse gradients of the two bisectors.
CentreX(mabx, maby, mbcx, mbcy, igab, igbc) ==
    IF FEq(igab, Infinity) THEN mabx
    ELSE IF FEq(igbc, Infinity) THEN mbcx
    ELSE FDiv(FSub(FAdd(FSub(FMul(mabx, igab), FMul(mbcx, igbc)), mbcy), maby),
              FSub(igab, igbc))

\* Mutant of CentreY: the first branch ends at maby instead of mbcy.
CentreYWrongMidpoint(xVal, mabx, maby, mbcx, mbcy, igab, igbc) ==
    IF FEq(igab, Infinity) THEN FAdd(FMul(FSub(xVal, mbcx), igbc), maby)
    ELSE FAdd(FMul(FSub(xVal, mabx), igab), maby)

\* yVal, from xVal.
CentreY(xVal, mabx, maby, mbcx, mbcy, igab, igbc) ==
    IF FEq(igab, Infinity) THEN FAdd(FMul(FSub(xVal, mbcx), igbc), mbcy)
    ELSE FAdd(FMul(FSub(xVal, mabx), igab), maby)

\* dx * dx + dy * dy
SumOfSquares(dx, dy) == FAdd(FMul(dx, dx), FMul(dy, dy))

\* The CircleResult with centre (xVal, yVal) through a.
CircleResult(a, xVal, yVal) ==
    [centre |-> [x |-> xVal, y |-> yVal],
     radius |-> FSqrt(SumOfSquares(FSub(a.x, xVal), FSub(a.y, yVal)))]

CircleFromX(a, xVal, mabx, maby, mbcx, mbcy, igab, igbc) ==
    CircleResult(a, xVal, CentreY(xVal, mabx, maby, mbcx, mbcy, igab, igbc))

CircleFromBisectors(a, mabx, maby, mbcx, mbcy, igab, igbc) ==
    CircleFromX(a, CentreX(mabx, maby, mbcx, mbcy, igab, igbc),
                mabx, maby, mbcx, mbcy, igab, igbc)

\* circle once the three points are sorted.
CircleOfSorted(sortedList) ==
    CircleFromBisectors(sortedList[1],
                        FHalf(FAdd(sortedList[1].x, sortedList[2].x)),
                        FHalf(FAdd(sortedList[1].y, sortedList[2].y)),
                        FHalf(FAdd(sortedList[2].x, sortedList[3].x)),
                        FHalf(FAdd(sortedList[2].y, sortedList[3].y)),
                        InverseGradient(sortedList[1], sortedList[2]),
                        InverseGradient(sortedList[2], sortedList[3]))

Circle(p, q, r) ==
    CircleOfSorted(JsSort(<<p, q, r>>, {c \in Pairs(<<p, q, r>>) : CircleLt(c[1], c[2])}))

\* getNormal once the length of the vector is known.
NormalOfLength(vector, divisor) ==
    [x |-> FDiv(vector.y, divisor), y |-> FNeg(FDiv(vector.x, divisor))]

GetNormal(vector) == NormalOfLength(vector, FSqrt(SumOfSquares(vector.x, vector.y)))

\* normal.x * transformedPoint.x + normal.y * transformedPoint.y
PlaneDistance(normal, transformedPoint) ==
    FAdd(FMul(normal.x, transformedPoint.x), FMul(normal.y, transformedPoint.y))

DistanceFromPlane(a, b, point) ==
    PlaneDistance(GetNormal([x |-> FSub(b.x, a.x), y |-> FSub(b.y, a.y)]),
                  [x |-> FSub(point.x, a.x), y |-> FSub(point.y, a.y)])

\* bisectorY once the midpoint and the inverse gradient are known.
BisectorFromMidpoint(midX, midY, inverseGrad, xVal) ==
    FAdd(FMul(FSub(xVal, midX), inverseGrad), midY)

\* The inverse gradient of bisectorY: Number.EPSILON for b.y = a.y.
BisectorGradient(dx, dy) == IF FEq(dy, Zero(1)) THEN Epsilon ELSE FDiv(dx, dy)

BisectorY(a, b, xVal) ==
    BisectorFromMidpoint(FHalf(FAdd(a.x, b.x)), FHalf(FAdd(a.y, b.y)),
                         BisectorGradient(FSub(a.x, b.x), FSub(b.y, a.y)), xVal)

\* ------------------------------------------------------------------------
\* Diagram state
\* ------------------------------------------------------------------------
\* A diagram is a record
\*   activeSites        sequence of [site, arcs]: arcs is the site's arc list
\*   arcs               every ParabolaArc ever created, by identity:
\*                      [activeSite, leftArc, rightArc] (0 is null)
\*   edges              sequence of [leftFace, rightFace, firstVertex, lastVertex]
\*   lineSweepPosition  the sweepline y
\*   siteEvents, vertexEvents   the two arrays of the priority queue
\*   vertexEventsCreated        the number of VertexEvent objects created so
\*                              far (the id of the newest one)
\*   crashed            an uncaught TypeError ended the run
\*   log                one record per assignment of an edge endpoint
Null == <<>>

NullArc == 0

Far == 100

Crash(d) == [d EXCEPT !.crashed = TRUE]

\* ------------------------------------------------------------------------
\* PriorityQueue
\* ------------------------------------------------------------------------
\* Mutant of SiteLt: the comparison is the other way round.
SiteLtReversed(a, b) ==
    IF FEq(a.y, b.y) THEN Negative(FSub(a.x, b.x))
    ELSE FLess(a.y, b.y)

\* comparator(a, b) < 0 in sortSites
SiteLt(a, b) ==
    IF FEq(a.y, b.y) THEN Negative(FSub(b.x, a.x))
    ELSE FLess(b.y, a.y)

SortSites(siteEvents) ==
    JsSort(siteEvents, {c \in Pairs(siteEvents) : SiteLt(c[1], c[2])})

\* comparator(a, b) < 0 in sortVertices; a NaN result counts as 0
VertexLt(a, b) ==
    IF FEq(a.eventPoint.y, b.eventPoint.y)
    THEN Negative(FSub(b.eventPoint.x, a.eventPoint.x))
    ELSE Negative(FSub(b.eventPoint.y, a.eventPoint.y))

SortVertices(vertexEvents) ==
    JsSort(vertexEvents, {c \in Pairs(vertexEvents) : VertexLt(c[1], c[2])})

PushSiteEvents(values) == SortSites(values)

PushVertexEvents(d, values) ==
    [d EXCEPT !.vertexEvents = SortVertices(@ \o values)]

IsEmpty(d) == Len(d.siteEvents) = 0 /\ Len(d.vertexEvents) = 0

Front(s) == SubSeq(s, 1, Len(s) - 1)

Last(s) == s[Len(s)]

\* Mutant of Pop: with both arrays non-empty the vertex event is returned
\* when the site's y is less, the site event otherwise.
PopHigherFirst(d) ==
    IF Len(d.vertexEvents) = 0
    THEN [isSiteEvent |-> TRUE, siteEvent |-> Last(d.siteEvents), vertexEvent |-> Null,
          siteEvents |-> Front(d.siteEvents), vertexEvents |-> d.vertexEvents]
    ELSE IF Len(d.siteEvents) = 0
    THEN [isSiteEvent |-> FALSE, siteEvent |-> Null, vertexEvent |-> Last(d.vertexEvents),
          siteEvents |-> d.siteEvents, vertexEvents |-> Front(d.vertexEvents)]
    ELSE IF FLess(Last(d.siteEvents).y, Last(d.vertexEvents).eventPoint.y)
    THEN [isSiteEvent |-> FALSE, siteEvent |-> Null, vertexEvent |-> Last(d.vertexEvents),
          siteEvents |-> d.siteEvents, vertexEvents |-> Front(d.vertexEvents)]
    ELSE [isSiteEvent |-> TRUE, siteEvent |-> Last(d.siteEvents), vertexEvent |-> Null,
          siteEvents |-> Front(d.siteEvents), vertexEvents |-> d.vertexEvents]

\* pop on a queue that is not empty: the event returned and the queue left.
Pop(d) ==
    IF Len(d.vertexEvents) = 0
    THEN [isSiteEvent |-> TRUE, siteEvent |-> Last(d.siteEvents), vertexEvent |-> Null,
          siteEvents |-> Front(d.siteEvents), vertexEvents |-> d.vertexEvents]
    ELSE IF Len(d.siteEvents) = 0
    THEN [isSiteEvent |-> FALSE, siteEvent |-> Null, vertexEvent |-> Last(d.vertexEvents),
          siteEvents |-> d.siteEvents, vertexEvents |-> Front(d.vertexEvents)]
    ELSE LET nextSiteEvent == Last(d.siteEvents)
             nextVertexEvent == Last(d.vertexEvents)
         IN  IF FLess(nextSiteEvent.y, nextVertexEvent.eventPoint.y)
             THEN [isSiteEvent |-> TRUE, siteEvent |-> nextSiteEvent, vertexEvent |-> Null,
                   siteEvents |-> Front(d.siteEvents), vertexEvents |-> d.vertexEvents]
             ELSE [isSiteEvent |-> FALSE, siteEvent |-> Null, vertexEvent |-> nextVertexEvent,
                   siteEvents |-> d.siteEvents, vertexEvents |-> Front(d.vertexEvents)]

\* ------------------------------------------------------------------------
\* Edges
\* ------------------------------------------------------------------------
\* Mutant of NewEdge: the two faces are exchanged.
NewEdgeFacesSwapped(leftFace, rightFace) ==
    [leftFace |-> rightFace, rightFace |-> leftFace, firstVertex |-> Null, lastVertex |-> Null]

NewEdge(leftFace, rightFace) ==
    [leftFace |-> leftFace, rightFace |-> rightFace, firstVertex |-> Null, lastVertex |-> Null]

\* Mutant of GetEdge: only an edge with leftFace a and rightFace b matches.
GetEdgeOrdered(edges, a, b) ==
    LET found == {i \in 1..Len(edges) : edges[i].leftFace = a /\ edges[i].rightFace = b}
    IN  IF found = {} THEN 0 ELSE CHOOSE i \in found : \A j \in found : i <= j

\* Index of the first edge between faces a and b, 0 when there is none.
GetEdge(edges, a, b) ==
    LET found == {i \in 1..Len(edges) :
                    \/ edges[i].leftFace = a /\ edges[i].rightFace = b
                    \/ edges[i].leftFace = b /\ edges[i].rightFace = a}
    IN  IF found = {} THEN 0 ELSE CHOOSE i \in found : \A j \in found : i <= j

\* TRUE when addVertexToEdge picks firstVertex.
IsFirstSlot(edge, vertex) ==
    FLess(Zero(1), DistanceFromPlane(edge.leftFace, edge.rightFace, vertex))

\* addVertexToEdge once the slot is chosen.
WriteSlot(edge, vertex, first) ==
    IF first THEN [edge EXCEPT !.firstVertex = <<vertex>>]
    ELSE [edge EXCEPT !.lastVertex = <<vertex>>]

\* The log record of an endpoint assignment: the edge (by index), the slot,
\* what the slot held, the vertex offered and what the slot holds afterwards.
WriteRecord(index, slot, before, vertex, after) ==
    [edge |-> index, slot |-> slot, old |-> before, vertex |-> vertex, stored |-> after]

SlotRecord(index, edge, vertex, first) ==
    IF first
    THEN WriteRecord(index, "firstVertex", edge.firstVertex, vertex,
                     WriteSlot(edge, vertex, first).firstVertex)
    ELSE WriteRecord(index, "lastVertex", edge.lastVertex, vertex,
                     WriteSlot(edge, vertex, first).lastVertex)

WriteVertex(d, index, vertex, first) ==
    [d EXCEPT !.edges[index] = WriteSlot(@, vertex, first),
              !.log = Append(@, SlotRecord(index, d.edges[index], vertex, first))]

\* addVertexToEdge on the edge of the given index; the assignment is logged.
AddVertexToEdge(d, index, vertex) ==
    WriteVertex(d, index, vertex, IsFirstSlot(d.edges[index], vertex))

\* updateEdge: a TypeError when no edge joins the two faces.
UpdateEdge(d, leftArc, rightArc, vertex) ==
    LET i == GetEdge(d.edges, leftArc, rightArc)
    IN  IF i = 0 THEN Crash(d)
        ELSE AddVertexToEdge(d, i, vertex)

\* ------------------------------------------------------------------------
\* Vertex events
\* ------------------------------------------------------------------------
SiteOf(d, arc) == d.activeSites[d.arcs[arc].activeSite].site

\* Mutant of RemoveVertexEvents: only the first of the values is removed.
RemoveVertexEventsFirstOnly(d, values) ==
    [d EXCEPT !.vertexEvents =
        SortVertices(SelectSeq(@, LAMBDA element :
                        Len(values) = 0 \/ values[1].id # element.id))]

\* values.indexOf(element) == -1 looks for the object itself: the element is
\* kept unless one of the values is that very object.
RemoveVertexEvents(d, values) ==
    [d EXCEPT !.vertexEvents =
        SortVertices(SelectSeq(@, LAMBDA element :
                        \A k \in 1..Len(values) : values[k].id # element.id))]

\* Mutant of RemoveArcTriples: only the middle arc of a triple is looked at.
RemoveArcTriplesMiddleOnly(d, arc) ==
    LET deadEvents == SelectSeq(d.vertexEvents, LAMBDA element : element.arcs[2] = arc)
    IN  RemoveVertexEvents(d, deadEvents)

RemoveArcTriples(d, arc) ==
    LET deadEvents == SelectSeq(d.vertexEvents,
                        LAMBDA element : \/ element.arcs[1] = arc
                                         \/ element.arcs[2] = arc
                                         \/ element.arcs[3] = arc)
    IN  RemoveVertexEvents(d, deadEvents)

\* getVertexEvent once eventY is known: null, or a new object.
VertexEventAtY(d, arc, circleResult, eventY) ==
    IF FLess(eventY, d.lineSweepPosition) THEN Null
    ELSE <<[arcs |-> <<d.arcs[arc].leftArc, arc, d.arcs[arc].rightArc>>,
            eventPoint |-> [x |-> circleResult.centre.x, y |-> eventY],
            vertexPoint |-> VPoint(circleResult.centre.x, circleResult.centre.y),
            id |-> d.vertexEventsCreated + 1]>>

\* getVertexEvent once the circle is known.
VertexEventOfCircle(d, arc, circleResult) ==
    IF FEq(circleResult.centre.x, Infinity) \/ FEq(circleResult.centre.y, Infinity) THEN Null
    ELSE VertexEventAtY(d, arc, circleResult,
                        FAdd(circleResult.centre.y, circleResult.radius))

\* Mutant of VertexEventOfSites: a triple whose left and right arcs belong to
\* the same site is not rejected.
VertexEventOfSitesLeftRightSame(d, arc, leftSite, middleSite, rightSite) ==
    IF leftSite = middleSite \/ middleSite = rightSite THEN Null
    ELSE IF FLess(rightSite.x, leftSite.x) THEN Null
    ELSE VertexEventOfCircle(d, arc, Circle(leftSite, middleSite, rightSite))

\* getVertexEvent once the three sites are known.
VertexEventOfSites(d, arc, leftSite, middleSite, rightSite) ==
    IF leftSite = middleSite \/ middleSite = rightSite \/ leftSite = rightSite THEN Null
    ELSE IF FLess(rightSite.x, leftSite.x) THEN Null
    ELSE VertexEventOfCircle(d, arc, Circle(leftSite, middleSite, rightSite))

\* getVertexEvent: <<>> for null, <<event>> otherwise.
GetVertexEvent(d, arc) ==
    VertexEventOfSites(d, arc, SiteOf(d, d.arcs[arc].leftArc), SiteOf(d, arc),
                       SiteOf(d, d.arcs[arc].rightArc))

\* The arcs updateVertexEventsForNewSite hands to getVertexEvent, in order.
TripleArcs(d, l, ll, r, rr) ==
    (IF ll # NullArc
     THEN <<l>> \o (IF d.arcs[ll].leftArc # NullArc THEN <<ll>> ELSE <<>>)
     ELSE <<>>)
    \o (IF rr # NullArc
         THEN <<r>> \o (IF d.arcs[rr].rightArc # NullArc THEN <<rr>> ELSE <<>>)
         ELSE <<>>)

\* The vertex events found so far followed by those of the arcs i.. of a
\* list, those that are null left out; each one is a new object.
RECURSIVE VertexEventsOf(_, _, _, _)
VertexEventsOf(d, arcList, i, found) ==
    IF i > Len(arcList) THEN found
    ELSE VertexEventsOf(d, arcList, i + 1,
            found \o GetVertexEvent([d EXCEPT !.vertexEventsCreated = @ + Len(found)],
                                    arcList[i]))

\* updateVertexEventsForNewSite for the arc between l and r.
UpdateVertexEventsBetween(d, l, r) ==
    LET found == VertexEventsOf(d, TripleArcs(d, l, d.arcs[l].leftArc,
                                              r, d.arcs[r].rightArc), 1, <<>>)
    IN  [PushVertexEvents(d, found) EXCEPT !.vertexEventsCreated = @ + Len(found)]

UpdateVertexEventsForNewSite(d, arc) ==
    UpdateVertexEventsBetween(d, d.arcs[arc].leftArc, d.arcs[arc].rightArc)

\* ------------------------------------------------------------------------
\* Beachline
\* ------------------------------------------------------------------------
NewArc(activeSite, leftArc, rightArc) ==
    [activeSite |-> activeSite, leftArc |-> leftArc, rightArc |-> rightArc]

\* An arc list without the given arc (the filter by identity).
WithoutArc(siteArcs, arc) == SelectSeq(siteArcs, LAMBDA element : element # arc)

\* Mutant of Relink: rightSite.leftArc is left as it was.
RelinkOneWay(arcTable, leftSite, rightSite) ==
    [i \in 1..Len(arcTable) |->
        IF i = leftSite THEN [arcTable[i] EXCEPT !.rightArc = rightSite]
        ELSE arcTable[i]]

\* The arcs after leftSite.rightArc = rightSite; rightSite.leftArc = leftSite.
Relink(arcTable, leftSite, rightSite) ==
    [i \in 1..Len(arcTable) |->
        IF i = leftSite /\ i = rightSite
        THEN [arcTable[i] EXCEPT !.rightArc = rightSite, !.leftArc = leftSite]
        ELSE IF i = leftSite THEN [arcTable[i] EXCEPT !.rightArc = rightSite]
        ELSE IF i = rightSite THEN [arcTable[i] EXCEPT !.leftArc = leftSite]
        ELSE arcTable[i]]

UpdateBeachLine(d, newArc, intersectedArc) ==
    LET owner == d.arcs[intersectedArc].activeSite
        intersectedArcLeftArc == d.arcs[intersectedArc].leftArc
        intersectedArcRightArc == d.arcs[intersectedArc].rightArc
        leftCopy == Len(d.arcs) + 1
        rightCopy == Len(d.arcs) + 2
        created == d.arcs \o <<NewArc(owner, intersectedArcLeftArc, newArc),
                               NewArc(owner, newArc, intersectedArcRightArc)>>
        \* newArc.leftArc = leftCopy; newArc.rightArc = rightCopy
        triple == [created EXCEPT ![newArc].leftArc = leftCopy,
                                  ![newArc].rightArc = rightCopy]
        \* if (intersectedArcLeftArc != null)
        \*     intersectedArcLeftArc.rightArc = newArc.leftArc
        leftLinked == IF intersectedArcLeftArc # NullArc
                      THEN [triple EXCEPT ![intersectedArcLeftArc].rightArc =
                                               triple[newArc].leftArc]
                      ELSE triple
        \* if (intersectedArcRightArc != null)
        \*     intersectedArcRightArc.leftArc = newArc.rightArc
        \* (newArc.rightArc as the assignment above has left it)
        linked == IF intersectedArcRightArc # NullArc
                  THEN [leftLinked EXCEPT ![intersectedArcRightArc].leftArc =
                                               leftLinked[newArc].rightArc]
                  ELSE leftLinked
        d1 == [d EXCEPT
                !.activeSites[owner].arcs =
                    WithoutArc(@, intersectedArc) \o <<leftCopy, rightCopy>>,
                !.arcs = linked,
                !.edges = Append(@, NewEdge(SiteOf(d, newArc), d.activeSites[owner].site))]
    IN  UpdateVertexEventsForNewSite(RemoveArcTriples(d1, intersectedArc), newArc)

\* The active site whose parabola is highest at the new site's x (0: none).
RECURSIVE ScanParabolas(_, _, _, _, _)
\* The body of the forEach in insertSite for the active site i.
ScanNext(d, site, i, closestParabolaYDistance, closestParabolaSite, yDist) ==
    IF ~FEq(yDist, Infinity) /\ FLess(closestParabolaYDistance, yDist)
    THEN ScanParabolas(d, site, i + 1, yDist, i)
    ELSE ScanParabolas(d, site, i + 1, closestParabolaYDistance, closestParabolaSite)

ScanParabolas(d, site, i, closestParabolaYDistance, closestParabolaSite) ==
    IF i > Len(d.activeSites) THEN closestParabolaSite
    ELSE ScanNext(d, site, i, closestParabolaYDistance, closestParabolaSite,
                  ParabolaPointY(d.activeSites[i].site, d.lineSweepPosition, site.x))

ClosestParabolaSite(d, site) == ScanParabolas(d, site, 1, FNeg(Infinity), 0)

\* The arc of closestParabolaSite chosen for the split.  The forEach over all
\* arcs but the last keeps the last arc that matches; reading rightArc of an
\* arc that has none is a TypeError; an empty arc list yields undefined (0).
ContainingArc(d, closestParabolaSite, site) ==
    LET siteArcs == d.activeSites[closestParabolaSite].arcs
        n == Len(siteArcs)
        matches == {i \in 1..(n - 1) :
                      FLess(site.x, SiteOf(d, d.arcs[siteArcs[i]].rightArc).x)}
    IN  IF n = 1 THEN [crash |-> FALSE, arc |-> siteArcs[1]]
        ELSE IF \E i \in 1..(n - 1) : d.arcs[siteArcs[i]].rightArc = NullArc
        THEN [crash |-> TRUE, arc |-> NullArc]
        ELSE IF matches # {}
        THEN [crash |-> FALSE, arc |-> siteArcs[CHOOSE i \in matches : \A j \in matches : j <= i]]
        ELSE IF n = 0 THEN [crash |-> FALSE, arc |-> NullArc]
        ELSE [crash |-> FALSE, arc |-> siteArcs[n]]

\* comparator(a, b) < 0 in the sort that ends insertSite
ArcLt(d, a, b) ==
    IF d.arcs[a].rightArc = NullArc THEN FALSE
    ELSE IF d.arcs[b].rightArc = NullArc THEN TRUE
    ELSE Negative(FSub(SiteOf(d, d.arcs[a].rightArc).x, SiteOf(d, d.arcs[b].rightArc).x))

\* The sort that ends insertSite.
SortArcs(d, closestParabolaSite) ==
    [d EXCEPT !.activeSites[closestParabolaSite].arcs =
                  JsSort(@, {c \in Pairs(@) : ArcLt(d, c[1], c[2])})]

\* The diagram with the new active site and its arc pushed.
WithActiveSite(d, site) ==
    [d EXCEPT !.activeSites = Append(@, [site |-> site, arcs |-> <<Len(d.arcs) + 1>>]),
              !.arcs = Append(@, NewArc(Len(d.activeSites) + 1, NullArc, NullArc))]

\* insertSite once the containing arc is located: reading arcs of a null
\* closestParabolaSite, rightArc of a null arc or activeSite of an undefined
\* containingArc is a TypeError.
InsertSiteInto(d, site, closestParabolaSite, located) ==
    IF located.crash THEN Crash(d)
    ELSE IF located.arc = NullArc THEN Crash(WithActiveSite(d, site))
    ELSE SortArcs(UpdateBeachLine(WithActiveSite(d, site), Len(d.arcs) + 1, located.arc),
                  closestParabolaSite)

InsertSiteNear(d, site, closestParabolaSite) ==
    IF closestParabolaSite = 0 THEN Crash(d)
    ELSE InsertSiteInto(d, site, closestParabolaSite,
                        ContainingArc(d, closestParabolaSite, site))

InsertSite(d, site) == InsertSiteNear(d, site, ClosestParabolaSite(d, site))

\* processVertexEvent up to removeArcTriples: the arc leaves its site's list
\* and the beachline, and the vertex events that name it leave the queue.
RemoveArc(d, deletedArc, leftSite, rightSite) ==
    RemoveArcTriples(
        [d EXCEPT !.activeSites[d.arcs[deletedArc].activeSite].arcs = WithoutArc(@, deletedArc),
                  !.arcs = Relink(d.arcs, leftSite, rightSite)],
        deletedArc)

\* The edge of the two joined arcs, given the vertex and pushed.
PushVertexEdge(d, leftSite, rightSite, vertex) ==
    AddVertexToEdge([d EXCEPT !.edges = Append(@, NewEdge(SiteOf(d, leftSite),
                                                          SiteOf(d, rightSite)))],
                    Len(d.edges) + 1, vertex)

\* The second updateEdge, not reached when the first one threw.
UpdateRightEdge(d, deletedArc, rightSite, vertex) ==
    IF d.crashed THEN d
    ELSE UpdateEdge(d, SiteOf(d, deletedArc), SiteOf(d, rightSite), vertex)

UpdateEdges(d, deletedArc, leftSite, rightSite, vertex) ==
    UpdateRightEdge(UpdateEdge(d, SiteOf(d, leftSite), SiteOf(d, deletedArc), vertex),
                    deletedArc, rightSite, vertex)

ProcessVertexEvent(d, vertexEvent) ==
    UpdateEdges(PushVertexEdge(RemoveArc(d, vertexEvent.arcs[2], vertexEvent.arcs[1],
                                         vertexEvent.arcs[3]),
                               vertexEvent.arcs[1], vertexEvent.arcs[3],
                               vertexEvent.vertexPoint),
                vertexEvent.arcs[2], vertexEvent.arcs[1], vertexEvent.arcs[3],
                vertexEvent.vertexPoint)

\* ------------------------------------------------------------------------
\* Construction and finalization
\* ------------------------------------------------------------------------
InsertFirstSites(d) ==
    LET first == Pop(d)
        afterFirst == [d EXCEPT !.siteEvents = first.siteEvents,
                                !.vertexEvents = first.vertexEvents]
        second == Pop(afterFirst)
        firstSite == first.siteEvent
        secondSite == second.siteEvent
        \* arcs in order of creation: dividingArc, leftArc, rightArc
        dividingArc == 1
        leftArc == 2
        rightArc == 3
    IN  [d EXCEPT
            !.siteEvents = second.siteEvents,
            !.vertexEvents = second.vertexEvents,
            !.activeSites = <<[site |-> firstSite, arcs |-> <<leftArc, rightArc>>],
                              [site |-> secondSite, arcs |-> <<dividingArc>>]>>,
            !.arcs = <<NewArc(2, leftArc, rightArc),
                       NewArc(1, NullArc, dividingArc),
                       NewArc(1, dividingArc, NullArc)>>,
            !.edges = <<NewEdge(firstSite, secondSite)>>]

\* new VoronoiDiagram(sites), sites a sequence of at least two sites
VoronoiDiagram(sites) ==
    InsertFirstSites([activeSites |-> <<>>, arcs |-> <<>>, edges |-> <<>>,
                      lineSweepPosition |-> Zero(1),
                      siteEvents |-> PushSiteEvents(sites), vertexEvents |-> <<>>,
                      vertexEventsCreated |-> 0,
                      crashed |-> FALSE, log |-> <<>>])

\* The point at x on the bisector of the edge's faces.
FarPointAt(edge, x) == [x |-> x, y |-> BisectorY(edge.leftFace, edge.rightFace, x)]

\* Mutant of FarPoint: the direction test is inverted.
FarPointInverted(edge, known) ==
    FarPointAt(edge,
               IF FLess(Zero(1), FSub(FHalf(FAdd(edge.leftFace.x, edge.rightFace.x)), known.x))
               THEN FInt(-Far) ELSE FInt(Far))

\* The point completeUnboundEdges stores in the empty slot of an edge whose
\* other endpoint is known: direction is midpointX - known.x.
FarPoint(edge, known) ==
    FarPointAt(edge,
               IF FLess(Zero(1), FSub(FHalf(FAdd(edge.leftFace.x, edge.rightFace.x)), known.x))
               THEN FInt(Far) ELSE FInt(-Far))

\* Mutant of CompleteEdge: lastVertex is written without the test that it is
\* null, from the endpoint it holds.
CompleteEdgeUnguarded(edge) ==
    IF edge.firstVertex = Null /\ edge.lastVertex = Null THEN edge
    ELSE IF edge.firstVertex = Null
    THEN [edge EXCEPT !.firstVertex = <<FarPoint(edge, edge.lastVertex[1])>>]
    ELSE IF edge.lastVertex = Null
    THEN [edge EXCEPT !.lastVertex = <<FarPoint(edge, edge.firstVertex[1])>>]
    ELSE [edge EXCEPT !.lastVertex = <<FarPoint(edge, edge.lastVertex[1])>>]

\* What the forEach body of completeUnboundEdges makes of one edge.
CompleteEdge(edge) ==
    IF edge.firstVertex = Null /\ edge.lastVertex = Null THEN edge
    ELSE IF edge.firstVertex = Null
    THEN [edge EXCEPT !.firstVertex = <<FarPoint(edge, edge.lastVertex[1])>>]
    ELSE IF edge.lastVertex = Null
    THEN [edge EXCEPT !.lastVertex = <<FarPoint(edge, edge.firstVertex[1])>>]
    ELSE edge

\* The edges i.. of the list as the forEach leaves them.
RECURSIVE CompleteEdges(_, _)
CompleteEdges(edges, i) ==
    IF i > Len(edges) THEN <<>>
    ELSE <<CompleteEdge(edges[i])>> \o CompleteEdges(edges, i + 1)

\* The log records of the assignments that made the edges i.. of the list
\* after out of those of the list before.
RECURSIVE CompleteRecords(_, _, _)
CompleteRecords(before, after, i) ==
    IF i > Len(before) THEN <<>>
    ELSE (IF after[i] = before[i] THEN <<>>
          ELSE IF before[i].firstVertex = Null
          THEN <<WriteRecord(i, "firstVertex", Null, after[i].firstVertex[1],
                             after[i].firstVertex)>>
          ELSE <<WriteRecord(i, "lastVertex", Null, after[i].lastVertex[1],
                             after[i].lastVertex)>>)
         \o CompleteRecords(before, after, i + 1)

Completed(d, completedEdges) ==
    [d EXCEPT !.edges = completedEdges,
              !.log = @ \o CompleteRecords(d.edges, completedEdges, 1)]

CompleteUnboundEdges(d) == Completed(d, CompleteEdges(d.edges, 1))

\* The queue after pop has returned nextEvent.
AfterPop(d, nextEvent) ==
    [d EXCEPT !.siteEvents = nextEvent.siteEvents, !.vertexEvents = nextEvent.vertexEvents]

\* The site branch of computeStep.
SiteStep(d, nextEvent) ==
    InsertSite([AfterPop(d, nextEvent) EXCEPT !.lineSweepPosition = nextEvent.siteEvent.y],
               nextEvent.siteEvent)

\* The vertex branch of computeStep.
VertexStep(d, nextEvent) ==
    ProcessVertexEvent(
        [AfterPop(d, nextEvent) EXCEPT !.lineSweepPosition = nextEvent.vertexEvent.eventPoint.y],
        nextEvent.vertexEvent)

\* computeStep on a queue that is not empty
ComputeStep(d) ==
    IF Pop(d).isSiteEvent THEN SiteStep(d, Pop(d)) ELSE VertexStep(d, Pop(d))

\* ------------------------------------------------------------------------
\* The state machine
\* ------------------------------------------------------------------------
VARIABLES
    sites,              \* the input handed to the constructor
    activeSites, arcs, edges, lineSweepPosition, siteEvents, vertexEvents,
    vertexEventsCreated,
    crashed,            \* an uncaught TypeError ended the run
    log,                \* history: every assignment of an edge endpoint
    popped,             \* history: the events returned by pop, in order
    last,               \* history: what the last operation was and what it took
    finalHistory        \* history: the edge list before each completeUnboundEdges

vars == <<sites, activeSites, arcs, edges, lineSweepPosition, siteEvents, vertexEvents,
          vertexEventsCreated, crashed, log, popped, last, finalHistory>>

Diagram ==
    [activeSites |-> activeSites, arcs |-> arcs, edges |-> edges,
     lineSweepPosition |-> lineSweepPosition, siteEvents |-> siteEvents,
     vertexEvents |-> vertexEvents, vertexEventsCreated |-> vertexEventsCreated,
     crashed |-> crashed, log |-> log]

Becomes(d) ==
    /\ activeSites' = d.activeSites
    /\ arcs' = d.arcs
    /\ edges' = d.edges
    /\ lineSweepPosition' = d.lineSweepPosition
    /\ siteEvents' = d.siteEvents
    /\ vertexEvents' = d.vertexEvents
    /\ vertexEventsCreated' = d.vertexEventsCreated
    /\ crashed' = d.crashed
    /\ log' = d.log

\* The integer points an input site may sit on.
Grid == {[x |-> i, y |-> j] : i \in 0..MaxCoord, j \in 0..MaxCoord}

\* The inputs: up to MaxSites sites anywhere on the grid, and four or five
\* sites on the three by three block of points.
Inputs ==
    {S \in SUBSET Grid : Cardinality(S) >= 2 /\ Cardinality(S) <= MaxSites}
        \cup {S \in SUBSET {[x |-> i, y |-> j] : i \in 0..2, j \in 0..2} :
                  Cardinality(S) \in 4..5}

\* The points of a set as an array (by x, then y).
RECURSIVE ArrayOf(_)
ArrayOf(S) ==
    IF S = {} THEN <<>>
    ELSE LET p == CHOOSE q \in S : \A r \in S : q.x < r.x \/ (q.x = r.x /\ q.y <= r.y)
         IN  <<p>> \o ArrayOf(S \ {p})

\* The array of sites at the points of an array, one object per element.
RECURSIVE SitesFrom(_, _)
SitesFrom(points, k) ==
    IF k > Len(points) THEN <<>>
    ELSE <<Site(points[k].x, points[k].y, k)>> \o SitesFrom(points, k + 1)

PoppedSite(site) == [isSiteEvent |-> TRUE, x |-> site.x, y |-> site.y]

PoppedEvent(nextEvent) ==
    IF nextEvent.isSiteEvent THEN PoppedSite(nextEvent.siteEvent)
    ELSE [isSiteEvent |-> FALSE, x |-> nextEvent.vertexEvent.eventPoint.x,
          y |-> nextEvent.vertexEvent.eventPoint.y]

\* The state after new VoronoiDiagram(input).
Construct(input) ==
    LET d == VoronoiDiagram(input)
    IN  /\ sites = input
        /\ activeSites = d.activeSites
        /\ arcs = d.arcs
        /\ edges = d.edges
        /\ lineSweepPosition = d.lineSweepPosition
        /\ siteEvents = d.siteEvents
        /\ vertexEvents = d.vertexEvents
        /\ vertexEventsCreated = d.vertexEventsCreated
        /\ crashed = d.crashed
        /\ log = d.log
        /\ popped = <<PoppedSite(d.activeSites[1].site), PoppedSite(d.activeSites[2].site)>>
        /\ last = [kind |-> "construct", event |-> Null, destroyed |-> NullArc,
                   removed |-> 0]
        /\ finalHistory = <<>>

\* Inputs on which the rounding of the arithmetic shows: a point that lies
\* on a bisector is found beside it, and two vertex events at one height in
\* exact arithmetic are found at two heights.
RoundingInputs ==
    {<<VPoint(0, 0), VPoint(0, 3), VPoint(4, 0), VPoint(2, 4)>>,
     <<VPoint(0, 5), VPoint(5, 0), VPoint(6, 6), VPoint(4, 2), VPoint(4, 5)>>,
     <<VPoint(0, 3), VPoint(4, 3), VPoint(0, 0), VPoint(4, 0), VPoint(2, 4)>>,
     <<VPoint(2, 7), VPoint(2, 0), VPoint(5, 4), VPoint(1, 7), VPoint(3, 7)>>,
     <<VPoint(2, 5), VPoint(6, 6), VPoint(0, 5), VPoint(3, 2), VPoint(1, 5), VPoint(1, 0)>>,
     <<VPoint(0, 8), VPoint(6, 3), VPoint(2, 5), VPoint(2, 4), VPoint(1, 0)>>}

Init ==
    \E points \in {ArrayOf(S) : S \in Inputs} \cup RoundingInputs : Construct(SitesFrom(points, 1))

\* The arc insertSite splits once the closest site is known (0 when the
\* step fails first).
LocatedArc(d, site, closest) ==
    IF closest = 0 THEN NullArc
    ELSE IF ContainingArc(d, closest, site).crash THEN NullArc
    ELSE ContainingArc(d, closest, site).arc

\* The arc the site event for nextEvent splits.
SplitArc(d, nextEvent) ==
    LocatedArc(d, nextEvent.siteEvent,
               ClosestParabolaSite([d EXCEPT !.lineSweepPosition = nextEvent.siteEvent.y],
                                   nextEvent.siteEvent))

\* The arc a computeStep takes off the beachline: the arc a site event
\* splits, the middle arc of a vertex event (0 when the step fails first).
Destroyed(d) ==
    IF Pop(d).isSiteEvent THEN SplitArc(d, Pop(d)) ELSE Pop(d).vertexEvent.arcs[2]

\* How many of the vertex events name the arc.
Naming(events, arc) ==
    Len(SelectSeq(events, LAMBDA element : \E k \in 1..3 : element.arcs[k] = arc))

\* What a computeStep that took the arc off the beachline leaves in last.
StepTaken(kind, event, nextEvent, arc) ==
    [kind |-> kind, event |-> <<event>>, destroyed |-> arc,
     removed |-> Naming(nextEvent.vertexEvents, arc)]

\* computeStep when pop returns a site event
SiteEvent ==
    /\ ~crashed
    /\ ~IsEmpty(Diagram)
    /\ Pop(Diagram).isSiteEvent
    /\ Becomes(SiteStep(Diagram, Pop(Diagram)))
    /\ popped' = Append(popped, PoppedEvent(Pop(Diagram)))
    /\ last' = StepTaken("site", Pop(Diagram).siteEvent, Pop(Diagram),
                         SplitArc(Diagram, Pop(Diagram)))
    /\ UNCHANGED <<sites, finalHistory>>

\* computeStep when pop returns a vertex event
VertexEvent ==
    /\ ~crashed
    /\ ~IsEmpty(Diagram)
    /\ ~Pop(Diagram).isSiteEvent
    /\ Becomes(VertexStep(Diagram, Pop(Diagram)))
    /\ popped' = Append(popped, PoppedEvent(Pop(Diagram)))
    /\ last' = StepTaken("vertex", Pop(Diagram).vertexEvent, Pop(Diagram),
                         Pop(Diagram).vertexEvent.arcs[2])
    /\ UNCHANGED <<sites, finalHistory>>

\* completeUnboundEdges, run by compute once the queue is empty (and again by
\* a caller that finalizes a second time)
Finalize ==
    /\ ~crashed
    /\ IsEmpty(Diagram)
    /\ Len(finalHistory) < MaxFinal
    /\ Becomes(CompleteUnboundEdges(Diagram))
    /\ finalHistory' = Append(finalHistory, edges)
    /\ last' = [kind |-> "final", event |-> Null, destroyed |-> NullArc, removed |-> 0]
    /\ UNCHANGED <<sites, popped>>

Next == SiteEvent \/ VertexEvent \/ Finalize

Spec == Init /\ [][Next]_vars

\* compute has a step to take: a computeStep while the queue is not empty,
\* then its one run of completeUnboundEdges.
ComputeEnabled == ~crashed /\ (~IsEmpty(Diagram) \/ Len(finalHistory) = 0)

\* ------------------------------------------------------------------------
\* Runs on fixed inputs: the sites the script hands to the constructor and
\* the triangle (0,0), (4,0), (2,4), each in every order, and five sites of
\* which one comes to own three arcs.
\* ------------------------------------------------------------------------
SeedSites == <<Site(3, 3, 1), Site(12, 3, 2), Site(8, 5, 3), Site(10, 5, 4)>>

TriangleSites == <<Site(0, 0, 1), Site(4, 0, 2), Site(2, 4, 3)>>

FiveSites == <<Site(0, 3, 1), Site(1, 0, 2), Site(2, 2, 3), Site(4, 0, 4), Site(4, 1, 5)>>

\* The arrays that hold the elements of s in some order.
Orderings(s) ==
    {t \in [1..Len(s) -> {s[i] : i \in 1..Len(s)}] :
        \A i, j \in 1..Len(s) : i # j => t[i] # t[j]}

SeedInit ==
    \E input \in Orderings(SeedSites) \cup Orderings(TriangleSites) \cup {FiveSites} :
        Construct(input)

SeedSpec == SeedInit /\ [][Next]_vars

\* ------------------------------------------------------------------------
\* The beachline, walked as logBeachLine walks it: from the first arc of the
\* first active site to the leftmost arc, then along rightArc.
\* ------------------------------------------------------------------------
RECURSIVE Leftmost(_, _)
Leftmost(arc, fuel) ==
    IF fuel = 0 \/ arcs[arc].leftArc = NullArc THEN arc
    ELSE Leftmost(arcs[arc].leftArc, fuel - 1)

RECURSIVE RightFrom(_, _)
RightFrom(arc, fuel) ==
    IF arc = NullArc \/ fuel = 0 THEN <<>>
    ELSE <<arc>> \o RightFrom(arcs[arc].rightArc, fuel - 1)

BeachLine ==
    IF activeSites[1].arcs = <<>> THEN <<>>
    ELSE RightFrom(Leftmost(activeSites[1].arcs[1], Len(arcs)), Len(arcs))

OnBeachLine == {BeachLine[i] : i \in 1..Len(BeachLine)}

\* ------------------------------------------------------------------------
\* Properties
\* ------------------------------------------------------------------------

\* C1: after construction and after every computeStep, every arc A on the
\* beachline satisfies A.rightArc.leftArc = A when A.rightArc exists and
\* A.leftArc.rightArc = A when A.leftArc exists.
LinkSymmetry ==
    \A a \in OnBeachLine :
        /\ arcs[a].rightArc # NullArc => arcs[arcs[a].rightArc].leftArc = a
        /\ arcs[a].leftArc # NullArc => arcs[arcs[a].leftArc].rightArc = a

\* A vertex event has just joined two arcs of a beachline of five or more arcs.
LinkSymmetryWitness ==
    /\ last.kind = "vertex"
    /\ ~crashed
    /\ Len(BeachLine) >= 5
    /\ arcs[last.event[1].arcs[1]].rightArc = last.event[1].arcs[3]

\* C2: after construction and after every computeStep, for every active
\* site S the arcs held in S.arcs are exactly the beachline arcs whose
\* activeSite is S: none missing, none extra, none listed twice.
ArcSiteConsistency ==
        \A i \in 1..Len(activeSites) :
            LET siteArcs == activeSites[i].arcs
            IN  /\ \A j, k \in 1..Len(siteArcs) : j # k => siteArcs[j] # siteArcs[k]
                /\ {siteArcs[k] : k \in 1..Len(siteArcs)}
                     = {a \in OnBeachLine : arcs[a].activeSite = i}

\* C3: after every computeStep, every arc named by a queued vertex event, in
\* any of its three positions, is still on the beachline.
QueueFreshness ==
    \A k \in 1..Len(vertexEvents) :
        \A j \in 1..3 : vertexEvents[k].arcs[j] \in OnBeachLine

\* A step has just taken an arc off the beachline, removed the queued vertex
\* events that named it, and left other vertex events in the queue.
QueueFreshnessWitness ==
    /\ last.kind \in {"site", "vertex"}
    /\ ~crashed
    /\ last.removed >= 1
    /\ Len(vertexEvents) >= 1

Assignments(i) == SelectSeq(log, LAMBDA w : w.edge = i)

\* C5: over a whole run every edge receives at most two endpoint
\* assignments, those of finalization included.
AtMostTwoAssignments ==
    \A i \in 1..Len(edges) : Len(Assignments(i)) <= 2

\* C6: when the slot addVertexToEdge designates is already populated the
\* write is dropped and the slot keeps its earlier vertex.
PopulatedSlotKept ==
    \A k \in 1..Len(log) : log[k].old # Null => log[k].stored = log[k].old

FacePair(edge) == {edge.leftFace, edge.rightFace}

\* C7: the edge list holds at most one edge per unordered pair of faces.
OneEdgePerFacePair ==
    \A i, j \in 1..Len(edges) : i # j => FacePair(edges[i]) # FacePair(edges[j])

\* C8: for an input of exactly two sites, after construction and compute
\* the edge list holds exactly one edge with both endpoints set, one at
\* x = +100 and the other at x = -100.
TwoSitesOneFullEdge ==
    (Len(sites) = 2 /\ Len(finalHistory) >= 1) =>
        /\ Len(edges) = 1
        /\ edges[1].firstVertex # Null
        /\ edges[1].lastVertex # Null
        /\ {edges[1].firstVertex[1].x, edges[1].lastVertex[1].x} = {FInt(Far), FInt(-Far)}

\* The x completeUnboundEdges must give the missing endpoint of an edge.
ExpectedFarX(edge, known) ==
    IF FLess(known.x, FHalf(FAdd(edge.leftFace.x, edge.rightFace.x)))
    THEN FInt(100) ELSE FInt(-100)

\* What C9 asks of one edge, before and after completeUnboundEdges.
CompletedAsSpecified(before, after) ==
    /\ after.leftFace = before.leftFace
    /\ after.rightFace = before.rightFace
    /\ IF before.firstVertex = Null /\ before.lastVertex # Null
       THEN /\ after.lastVertex = before.lastVertex
            /\ after.firstVertex # Null
            /\ after.firstVertex[1].x = ExpectedFarX(before, before.lastVertex[1])
       ELSE IF before.firstVertex # Null /\ before.lastVertex = Null
       THEN /\ after.firstVertex = before.firstVertex
            /\ after.lastVertex # Null
            /\ after.lastVertex[1].x = ExpectedFarX(before, before.firstVertex[1])
       ELSE after = before

\* C9: completeUnboundEdges fills the missing slot of every edge that has
\* exactly one endpoint with a point at x = +100 when the x-midpoint of the
\* faces is strictly greater than the existing endpoint's x and at x = -100
\* otherwise, leaves the existing endpoint and the faces unchanged, and
\* leaves unchanged every edge that has both endpoints or neither.
CompleteUnboundEdgesPerEdge ==
    last.kind = "final" =>
        /\ Len(edges) = Len(Last(finalHistory))
        /\ \A i \in 1..Len(edges) : CompletedAsSpecified(Last(finalHistory)[i], edges[i])

\* The first finalization has just run on a list that held an edge completed
\* to +100, an edge completed to -100, an edge with both endpoints and an
\* edge with neither.
CompleteUnboundEdgesPerEdgeWitness ==
    /\ last.kind = "final"
    /\ Len(finalHistory) = 1
    /\ \E i, j, k, l \in 1..Len(edges) :
          LET before == finalHistory[1]
          IN  /\ before[i] # edges[i]
              /\ FInt(Far) \in {edges[i].firstVertex[1].x, edges[i].lastVertex[1].x}
              /\ before[j] # edges[j]
              /\ FInt(-Far) \in {edges[j].firstVertex[1].x, edges[j].lastVertex[1].x}
              /\ before[k].firstVertex # Null /\ before[k].lastVertex # Null
              /\ before[l].firstVertex = Null /\ before[l].lastVertex = Null

\* C10: running completeUnboundEdges a second time leaves the edge list
\* exactly as the first run left it.
FinalizationIdempotent ==
    Len(finalHistory) >= 2 => edges = finalHistory[2]

\* Finalization has run twice, and its first run completed an edge and met
\* an edge that already had both endpoints.
FinalizationIdempotentWitness ==
    /\ Len(finalHistory) = 2
    /\ last.kind = "final"
    /\ finalHistory[1] # finalHistory[2]
    /\ \E k \in 1..Len(edges) :
          finalHistory[1][k].firstVertex # Null /\ finalHistory[1][k].lastVertex # Null

\* The run is on the triangle (0,0), (4,0), (2,4), in some order.
TriangleRun == sites \in Orderings(TriangleSites)

\* The run is on the script's four sites, in some order.
SeedRun == sites \in Orderings(SeedSites)

\* The vertex events among the events popped so far.
VertexPops == SelectSeq(popped, LAMBDA e : ~e.isSiteEvent)

Circumcentre == VPoint(FInt(2), FHalf(FInt(3)))

IsFar(vertex) == vertex # Null /\ vertex[1].x \in {FInt(100), FInt(-100)}

\* C11: on the sites (0,0), (4,0), (2,4) in any order, compute fires exactly
\* one vertex event, whose vertex point is (2, 1.5), and ends with exactly
\* three edges, each with one endpoint (2, 1.5) and the other at x = +100 or
\* x = -100.
TriangleDiagram ==
    TriangleRun =>
        /\ ~crashed
        /\ Len(VertexPops) <= 1
        /\ last.kind = "vertex" => last.event[1].vertexPoint = Circumcentre
        /\ Len(finalHistory) >= 1 =>
              /\ Len(VertexPops) = 1
              /\ Len(edges) = 3
              /\ \A i \in 1..Len(edges) :
                    \/ edges[i].firstVertex = <<Circumcentre>> /\ IsFar(edges[i].lastVertex)
                    \/ edges[i].lastVertex = <<Circumcentre>> /\ IsFar(edges[i].firstVertex)

\* compute has just ended on the triangle given as (2,4), (4,0), (0,0).
TriangleDiagramWitness ==
    /\ sites = <<TriangleSites[3], TriangleSites[2], TriangleSites[1]>>
    /\ last.kind = "final"
    /\ Len(finalHistory) = 1
    /\ Len(VertexPops) = 1

HasEdge(a, b) == \E i \in 1..Len(edges) : {edges[i].leftFace, edges[i].rightFace} = {a, b}

\* C12: on the script's sites, after the queue drains and finalization runs,
\* the edge list has an edge for (8,5)-(10,5), for (8,5)-(3,3), for
\* (3,3)-(12,3) and for (10,5)-(3,3) or (10,5)-(12,3), and every endpoint
\* that no vertex event wrote sits at x = +100 or x = -100.
SeedDiagram ==
    (SeedRun /\ Len(finalHistory) >= 1) =>
        /\ HasEdge(SeedSites[3], SeedSites[4])
        /\ HasEdge(SeedSites[3], SeedSites[1])
        /\ HasEdge(SeedSites[1], SeedSites[2])
        /\ HasEdge(SeedSites[4], SeedSites[1]) \/ HasEdge(SeedSites[4], SeedSites[2])
        /\ \A i \in 1..Len(edges) :
              /\ finalHistory[1][i].firstVertex = Null => IsFar(edges[i].firstVertex)
              /\ finalHistory[1][i].lastVertex = Null => IsFar(edges[i].lastVertex)

\* The square of the distance from a vertex to a site.
DistanceSquared(vertex, site) ==
    SumOfSquares(FSub(vertex.x, site.x), FSub(vertex.y, site.y))

\* Two distances are taken for equal when they differ by no more than this
\* part of their sum (2^-40): the coordinates of a vertex are rounded.
Tolerance == [kind |-> "num", sign |-> 1, man |-> <<1>>, exp |-> -40]

\* |a - b| <= Tolerance * (a + b)
NearlyEqual(a, b) ==
    /\ ~FLess(FMul(Tolerance, FAdd(a, b)), FSub(a, b))
    /\ ~FLess(FMul(Tolerance, FAdd(a, b)), FSub(b, a))

\* A point of the plane at the same distance from both faces of the edge.
Equidistant(vertex, edge) ==
    /\ IsFinite(vertex.x)
    /\ IsFinite(vertex.y)
    /\ NearlyEqual(DistanceSquared(vertex, edge.leftFace), DistanceSquared(vertex, edge.rightFace))

\* C13: every vertex point a vertex event writes into an edge is equidistant
\* from the edge's two faces, so before finalization every endpoint an edge
\* holds lies on the perpendicular bisector of its faces.
VertexOnBisector ==
    Len(finalHistory) = 0 =>
        /\ \A k \in 1..Len(log) : Equidistant(log[k].vertex, edges[log[k].edge])
        /\ \A i \in 1..Len(edges) :
              /\ edges[i].firstVertex # Null => Equidistant(edges[i].firstVertex[1], edges[i])
              /\ edges[i].lastVertex # Null => Equidistant(edges[i].lastVertex[1], edges[i])

\* pop returned the site event and removed nothing else.
ReturnsSite(result) ==
    /\ result.isSiteEvent
    /\ result.siteEvent = Last(siteEvents)
    /\ result.vertexEvent = Null
    /\ result.siteEvents = Front(siteEvents)
    /\ result.vertexEvents = vertexEvents

\* pop returned the vertex event and removed nothing else.
ReturnsVertex(result) ==
    /\ ~result.isSiteEvent
    /\ result.vertexEvent = Last(vertexEvents)
    /\ result.siteEvent = Null
    /\ result.vertexEvents = Front(vertexEvents)
    /\ result.siteEvents = siteEvents

BothQueued == Len(siteEvents) > 0 /\ Len(vertexEvents) > 0

SiteIsLower == FLess(Last(siteEvents).y, Last(vertexEvents).eventPoint.y)

\* C14 as stated: with both sequences non-empty, pop returns the vertex event
\* if the next site's y is less than the next vertex event's y and the site
\* event otherwise, and removes only the event it returns.
PopSiteOnTies ==
    BothQueued =>
        IF SiteIsLower THEN ReturnsVertex(Pop(Diagram)) ELSE ReturnsSite(Pop(Diagram))

\* C14, amended: with both sequences non-empty, pop returns the site event if
\* the next site's y is strictly less than the next vertex event's y and the
\* vertex event otherwise (so the vertex event on equal y), and removes only
\* the event it returns.
PopLowerFirst ==
    BothQueued =>
        IF SiteIsLower THEN ReturnsSite(Pop(Diagram)) ELSE ReturnsVertex(Pop(Diagram))

\* A run has reached a queue whose next site and next vertex event have the
\* same y, with a further event queued behind them.
PopLowerFirstWitness ==
    /\ ~crashed
    /\ BothQueued
    /\ Len(siteEvents) + Len(vertexEvents) >= 3
    /\ FEq(Last(siteEvents).y, Last(vertexEvents).eventPoint.y)

\* The site of an arc of the current diagram.
ArcSite(arc) == activeSites[arcs[arc].activeSite].site

\* The next computeStep will process a vertex event.
VertexEventNext == ~crashed /\ ~IsEmpty(Diagram) /\ ~Pop(Diagram).isSiteEvent

\* C15: whenever a vertex event with triple (L, M, R) is processed, the edge
\* list already holds an edge between the sites of L and M and an edge
\* between the sites of M and R, so both updateEdge lookups find an edge.
EdgesExistForVertexEvent ==
    /\ VertexEventNext =>
          /\ GetEdge(edges, ArcSite(Pop(Diagram).vertexEvent.arcs[1]),
                            ArcSite(Pop(Diagram).vertexEvent.arcs[2])) # 0
          /\ GetEdge(edges, ArcSite(Pop(Diagram).vertexEvent.arcs[2]),
                            ArcSite(Pop(Diagram).vertexEvent.arcs[3])) # 0
    /\ last.kind = "vertex" => ~crashed

\* A vertex event has just been processed on a list of five or more edges,
\* and its two lookups wrote into two different earlier edges.
EdgesExistForVertexEventWitness ==
    /\ last.kind = "vertex"
    /\ ~crashed
    /\ Len(edges) >= 5
    /\ Len(log) >= 3
    /\ log[Len(log)].edge < Len(edges)
    /\ log[Len(log) - 1].edge < Len(edges)
    /\ log[Len(log)].edge # log[Len(log) - 1].edge

\* The arcs that acquired a new left or right neighbour in the last step: the
\* two arcs a vertex event joined; the three arcs a site event created and
\* the arcs on either side of them.
NewlyAdjacent ==
    IF crashed THEN {}
    ELSE IF last.kind = "vertex" THEN {last.event[1].arcs[1], last.event[1].arcs[3]}
    ELSE IF last.kind = "site"
    THEN {Len(arcs) - 2, Len(arcs) - 1, Len(arcs),
          arcs[Len(arcs) - 1].leftArc, arcs[Len(arcs)].rightArc} \ {NullArc}
    ELSE {}

\* The triple around an arc passes the vertex-event filters once its circle
\* is known: finite centre, event y not behind the sweepline.
CirclePasses(circleResult) ==
    /\ IsFinite(circleResult.centre.x)
    /\ IsFinite(circleResult.centre.y)
    /\ ~FLess(FAdd(circleResult.centre.y, circleResult.radius), lineSweepPosition)

\* The triple (A.left, A, A.right) exists and passes the vertex-event filters.
TriplePasses(arc) ==
    /\ arcs[arc].leftArc # NullArc
    /\ arcs[arc].rightArc # NullArc
    /\ ArcSite(arcs[arc].leftArc) # ArcSite(arc)
    /\ ArcSite(arc) # ArcSite(arcs[arc].rightArc)
    /\ ArcSite(arcs[arc].leftArc) # ArcSite(arcs[arc].rightArc)
    /\ ~FLess(ArcSite(arcs[arc].rightArc).x, ArcSite(arcs[arc].leftArc).x)
    /\ CirclePasses(Circle(ArcSite(arcs[arc].leftArc), ArcSite(arc),
                           ArcSite(arcs[arc].rightArc)))

Queued(arc) ==
    \E k \in 1..Len(vertexEvents) :
        vertexEvents[k].arcs = <<arcs[arc].leftArc, arc, arcs[arc].rightArc>>

\* C16: after any event is processed, every arc that acquired a new
\* neighbour in that step and whose triple passes the vertex-event filters
\* has a vertex event for its triple in the queue.
NewTriplesQueued ==
    \A arc \in NewlyAdjacent : TriplePasses(arc) => Queued(arc)

\* The next computeStep will process a site event.
SiteEventNext == ~crashed /\ ~IsEmpty(Diagram) /\ Pop(Diagram).isSiteEvent

\* The active site with the highest parabola at the x of the next site, the
\* sweepline being at the y of that site (0 when there is none).
HighestParabolaSite ==
    ClosestParabolaSite([Diagram EXCEPT !.lineSweepPosition = Pop(Diagram).siteEvent.y],
                        Pop(Diagram).siteEvent)

\* The positions in an arc list of the arcs whose right neighbour's site has
\* x > siteX.
MatchingPositions(list, siteX) ==
    {i \in 1..Len(list) :
        /\ arcs[list[i]].rightArc # NullArc
        /\ FLess(siteX, ArcSite(arcs[list[i]].rightArc).x)}

\* The first matching arc of the list, its last arc when none matches.
FirstMatch(list, siteX) ==
    IF MatchingPositions(list, siteX) = {} THEN list[Len(list)]
    ELSE list[CHOOSE i \in MatchingPositions(list, siteX) :
                 \A j \in MatchingPositions(list, siteX) : i <= j]

\* C17: in a site event at x = siteX, when the site with the highest parabola
\* owns more than one arc, the arc split is the first arc of that site's list
\* whose right neighbour's site has x > siteX, and the last arc of the list
\* when no arc matches.
SplitsFirstMatch ==
    (SiteEventNext /\ HighestParabolaSite # 0) =>
        (Len(activeSites[HighestParabolaSite].arcs) > 1 =>
            Destroyed(Diagram) = FirstMatch(activeSites[HighestParabolaSite].arcs,
                                            Pop(Diagram).siteEvent.x))

\* The position of an arc on the beachline, counted from the left.
Position(arc) == CHOOSE k \in 1..Len(BeachLine) : BeachLine[k] = arc

\* The arc list of an active site follows the beachline from left to right.
InBeachLineOrder(list) ==
    /\ \A k \in 1..Len(list) : list[k] \in OnBeachLine
    /\ \A j, k \in 1..Len(list) : j < k => Position(list[j]) < Position(list[k])

\* C18: after every site event, the arc list of the site whose arc was split
\* lists that site's arcs in their left-to-right order on the beachline.
SplitOwnerSorted ==
    (last.kind = "site" /\ ~crashed) =>
        InBeachLineOrder(activeSites[arcs[last.destroyed].activeSite].arcs)

\* The parabola value the scan of insertSite computes for an active site in
\* the next site event.
NextParabolaValue(activeSite) ==
    ParabolaPointY(activeSites[activeSite].site,
                   Pop(Diagram).siteEvent.y,
                   Pop(Diagram).siteEvent.x)

\* C19: in every site event, arc location selects an active site whose
\* parabola value is finite and that owns at least one arc, the arc it
\* returns is on the beachline, and the site event completes with its split
\* (it never fails).
ArcLocationCompletes ==
    /\ SiteEventNext =>
          /\ HighestParabolaSite # 0
          /\ IsFinite(NextParabolaValue(HighestParabolaSite))
          /\ Len(activeSites[HighestParabolaSite].arcs) >= 1
          /\ Destroyed(Diagram) \in OnBeachLine
    /\ last.kind = "site" => ~crashed

\* Three sites lie on one line (of any direction).
Collinear(a, b, c) ==
    FEq(FMul(FSub(b.x, a.x), FSub(c.y, a.y)), FMul(FSub(b.y, a.y), FSub(c.x, a.x)))

\* Both coordinates of the vertex point and of the event point are finite.
FiniteEvent(vertexEvent) ==
    /\ IsFinite(vertexEvent.vertexPoint.x)
    /\ IsFinite(vertexEvent.vertexPoint.y)
    /\ IsFinite(vertexEvent.eventPoint.x)
    /\ IsFinite(vertexEvent.eventPoint.y)

\* C20: no vertex event in the queue belongs to a triple of collinear sites,
\* and every vertex event in the queue has a finite vertexPoint and a finite
\* eventPoint.
QueuedEventsFinite ==
    \A k \in 1..Len(vertexEvents) :
        /\ ~Collinear(ArcSite(vertexEvents[k].arcs[1]),
                      ArcSite(vertexEvents[k].arcs[2]),
                      ArcSite(vertexEvents[k].arcs[3]))
        /\ FiniteEvent(vertexEvents[k])

\* The beachline with the arc at one position replaced by three arcs.
SplitAt(line, arc, leftCopy, newArc, rightCopy) ==
    LET k == CHOOSE i \in 1..Len(line) : line[i] = arc
    IN  SubSeq(line, 1, k - 1) \o <<leftCopy, newArc, rightCopy>> \o SubSeq(line, k + 1, Len(line))

\* The effect of a site event for the site at the head of the queue whose
\* containing arc is the given arc: the three arcs created are numbered in
\* the order of their creation (new arc, left copy, right copy).
SplitEffect(containingArc, site, newArc, leftCopy, rightCopy) ==
    /\ ~crashed'
    /\ Len(arcs') = Len(arcs) + 3
    /\ containingArc \in OnBeachLine
    /\ BeachLine' = SplitAt(BeachLine, containingArc, leftCopy, newArc, rightCopy)
    /\ activeSites'[arcs'[newArc].activeSite].site = site
    /\ arcs'[newArc].activeSite = Len(activeSites) + 1
    /\ arcs'[leftCopy].activeSite = arcs[containingArc].activeSite
    /\ arcs'[rightCopy].activeSite = arcs[containingArc].activeSite
    /\ \A arc \in 1..Len(arcs) : arcs'[arc].activeSite = arcs[arc].activeSite
    /\ \A arc \in 1..Len(arcs) :
          /\ arcs[arc].leftArc # containingArc => arcs'[arc].leftArc = arcs[arc].leftArc
          /\ arcs[arc].rightArc # containingArc => arcs'[arc].rightArc = arcs[arc].rightArc
    /\ Len(activeSites') = Len(activeSites) + 1
    /\ activeSites'[Len(activeSites) + 1].site = site
    /\ \A i \in 1..Len(activeSites) : activeSites'[i].site = activeSites[i].site
    /\ edges' = Append(edges, [leftFace |-> site,
                               rightFace |-> activeSites[arcs[containingArc].activeSite].site,
                               firstVertex |-> Null, lastVertex |-> Null])

\* C21: a site event for site S with containing arc C replaces C on the
\* beachline by the consecutive triple (leftCopy, A, rightCopy), A a new arc
\* owned by S and both copies owned by C's owner; it appends S to the active
\* sites and exactly one edge (leftFace S, rightFace the site of C's owner,
\* no vertices); every other arc, the order of the other arcs and every
\* existing edge are left as they were.
SiteEventSplits ==
    [][(SiteEventNext /\ Destroyed(Diagram) # NullArc) =>
          SplitEffect(Destroyed(Diagram), Pop(Diagram).siteEvent,
                      Len(arcs) + 1, Len(arcs) + 2, Len(arcs) + 3)]_vars

\* A site event has split an arc that had a neighbour on both sides.
SiteEventSplitsWitness ==
    /\ last.kind = "site"
    /\ ~crashed
    /\ arcs[last.destroyed].leftArc # NullArc
    /\ arcs[last.destroyed].rightArc # NullArc

\* The number of site events popped so far, the two of the constructor
\* included.
SitePops == Cardinality({k \in 1..Len(popped) : popped[k].isSiteEvent})

\* compute has returned: the queue is empty, nothing failed, every site was
\* popped exactly once (n - 2 of them by computeStep) and the edges were
\* finalized.
ComputeReturned ==
    /\ ~crashed
    /\ IsEmpty(Diagram)
    /\ SitePops = Len(sites)
    /\ Len(finalHistory) >= 1

\* The number of vertex events popped so far.
VertexPopCount == Len(popped) - SitePops

\* C22: for every input of n >= 2 distinct sites compute terminates.  Site
\* events are never added and each vertex event removes one arc of a
\* beachline that only site events grow (by two arcs each), which bounds the
\* number of computeSteps; and whenever compute has no step left to take it
\* has returned: the queue is empty, all n sites were popped (n - 2 of them by
\* computeStep) and finalization has run.
ComputeTerminates ==
    /\ SitePops <= Len(sites)
    /\ VertexPopCount <= 2 * SitePops - 3
    /\ ComputeEnabled \/ ComputeReturned

\* The three arcs of a vertex event are linked to each other as neighbours.
ConsecutiveTriple(triple) ==
    /\ arcs[triple[1]].rightArc = triple[2]
    /\ arcs[triple[2]].leftArc = triple[1]
    /\ arcs[triple[2]].rightArc = triple[3]
    /\ arcs[triple[3]].leftArc = triple[2]

\* C23: after every computeStep, every vertex event (L, M, R) in the queue
\* names three arcs that are consecutive on the current beachline, and no two
\* queued vertex events have the same middle arc.
QueuedTriplesConsecutive ==
    /\ \A k \in 1..Len(vertexEvents) :
          /\ \A j \in 1..3 : vertexEvents[k].arcs[j] \in OnBeachLine
          /\ ConsecutiveTriple(vertexEvents[k].arcs)
    /\ \A j, k \in 1..Len(vertexEvents) :
          j # k => vertexEvents[j].arcs[2] # vertexEvents[k].arcs[2]

\* A vertex event has just been processed, queued vertex events that named
\* its middle arc were removed, and a vertex event is still queued.
QueuedTriplesConsecutiveWitness ==
    /\ last.kind = "vertex"
    /\ ~crashed
    /\ last.removed >= 1
    /\ Len(vertexEvents) >= 1

\* C24: after construction and after every computeStep, no two arcs that are
\* neighbours on the beachline are owned by the same site; in particular the
\* arcs L and R a vertex event has joined belong to different sites.
NeighboursDiffer ==
    /\ \A k \in 1..(Len(BeachLine) - 1) :
          ArcSite(BeachLine[k]) # ArcSite(BeachLine[k + 1])
    /\ (last.kind = "vertex" /\ ~crashed) =>
          ArcSite(last.event[1].arcs[1]) # ArcSite(last.event[1].arcs[3])

\* A vertex event has just joined its left and right arcs, on a beachline of
\* at least four arcs.
NeighboursDifferWitness ==
    /\ last.kind = "vertex"
    /\ ~crashed
    /\ arcs[last.event[1].arcs[1]].rightArc = last.event[1].arcs[3]
    /\ Len(BeachLine) >= 4

====

